---- MODULE Spec2Model ----
(***************************************************************************)
(* State-machine model of the MCP daemon engine (ai_mcp_daemon_engine).    *)
(*                                                                         *)
(* The subsystems are modelled by specifications over the shared           *)
(* variable list:                                                          *)
(*   SpecSSE       the SSE fanout and replay manager                       *)
(*                 (handlers/sse_manager.py and the stream endpoints of    *)
(*                 handlers/mcp_app.py);                                   *)
(*   SpecCache     the per-partition configuration cache                   *)
(*                 (handlers/config.py, the cache and GraphQL endpoints of *)
(*                 mcp_app.py), one fetch at a time;                       *)
(*   SpecColdFetch the same cache under concurrent fetches of a partition; *)
(*   SpecCall      the execute_decorator protocol and the async dispatcher *)
(*                 (handlers/mcp_utility.py) over the call records;        *)
(*   SpecRecord    the writes of call records with content                 *)
(*                 (models/mcp_function_call.py);                          *)
(*   SpecAuth      the bearer-token guard in front of the HTTP handlers    *)
(*                 (handlers/middleware.py, jwt_local.py, jwt_cognito.py); *)
(*   SpecHistory   the manager's id allocation and history past the        *)
(*                 history capacity;                                       *)
(*   SpecLifespan, SpecFanout, SpecPost                                    *)
(*                 the send operations as seen by a caller that keeps      *)
(*                 their result, with application shutdown, two users and  *)
(*                 POST /{endpoint_id}/sse respectively;                   *)
(*   SpecStreamEnd the life of a stream request up to its cleanup, with    *)
(*                 weak fairness of the generator's finally block;         *)
(*   SpecRetry     get_mcp_configuration_with_retry over the cache;        *)
(*   SpecBuild     the build of a configuration view, query by query       *)
(*                 (config.py, _fetch_modules_and_settings);               *)
(*   SpecRpc       the JSON-RPC processor, the argument validation of      *)
(*                 tool calls and the two POST endpoints                   *)
(*                 (mcp_server.py, mcp_utility.py, mcp_app.py);            *)
(*   SpecDefault   executions against the partition "default";             *)
(*   SpecRate      the rate limiter in front of the endpoints;             *)
(*   SpecShutdown  async tool threads and the exit of the lifespan;        *)
(*   SpecReplay    get_missed_messages on the text of Last-Event-ID;       *)
(*   SpecIsolation the streams and posts of two users, with replay;        *)
(*   SpecManager   the client map and the user map of the SSE manager;     *)
(*   SpecEvent     synchronous executions that carry a call uuid           *)
(*                 (main.py, async_execute_tool_function);                 *)
(*   SpecMint      the token-mint endpoint of the local provider in front  *)
(*                 of the guard (handlers/auth_router.py).                 *)
(*                                                                         *)
(* Scheduling: the HTTP handlers are coroutines of one event loop, so a    *)
(* handler runs without interleaving between two suspension points; the    *)
(* background executions of async tools are OS threads and interleave      *)
(* with the event loop at every store access.                              *)
(***************************************************************************)
EXTENDS Naturals, Integers, Sequences, FiniteSets, TLC

(***************************************************************************)
(* Bounds of the model.  The program's queue capacity is 100 and its       *)
(* history capacity 1000 (sse_manager.py:17); the model keeps their        *)
(* relation (history larger than a queue) at a size TLC can enumerate.     *)
(***************************************************************************)
max_queue_size == 2
max_history == 4
MaxMessages == 4
MaxClients == 2
MaxFetchers == 2
MaxVersion == 1
MaxCalls == 2
ItemSizeLimit == 1
MaxPolls == 2
MaxNow == 2

(* the longest Last-Event-ID value tried *)
MaxHeaderLen == 2

(* The program admits 100 requests a minute to the POST endpoints and 50  *)
(* to the stream endpoint (mcp_app.py:81, 194); the model keeps a POST    *)
(* quota above the GET quota over a window of clock ticks.                *)
PostQuota == 2
GetQuota == 1
WindowSeconds == 1
MaxClock == 2

Users == {"u1", "u2"}
NoHeader == -1

(* Python's None *)
None == <<>>

Min(a, b) == IF a < b THEN a ELSE b

Perms(s) == {p \in [1..Cardinality(s) -> s] :
                \A i, j \in 1..Cardinality(s) : i # j => p[i] # p[j]}

VARIABLES
    (* ---- SSEManager fields (sse_manager.py:17-25) ---- *)
    _clients,          \* key set of SSEManager._clients
    _user_clients,     \* username -> set of client ids ({} = key absent)
    _user_keys,        \* the usernames that are keys of _user_clients
    _message_history,  \* deque(maxlen=max_history) of id-stamped envelopes
    _client_id_seq,    \* next value of count(1) for client ids
    _message_id_seq,   \* next value of count(1) for message ids
    queue,             \* client id -> contents of its asyncio.Queue
    (* ---- per-connection state of get_sse_stream / sse_event_generator ---- *)
    conn,              \* client id -> record of the request that owns it
    last_taken,        \* client id -> id of the last id-carrying message the
                       \* writer loop took off the queue (0 = none yet)
    returned           \* the call of a send operation made by the step that
                       \* led here, and what it returned (None = no call)

sseVars == <<_clients, _user_clients, _user_keys, _message_history, _client_id_seq,
             _message_id_seq, queue, conn, last_taken, returned>>

VARIABLES
    (* ---- configuration cache (config.py:170) and its upstream ---- *)
    mcp_configuration, \* Config.mcp_configuration: partition key -> view
    upstream,          \* partition key -> version of the stored functions,
                       \* modules and settings of that partition
    fetcher,           \* thread -> position and locals of its running
                       \* Config.fetch_mcp_configuration call
    response,          \* what the step just taken handed to the caller of a fetch
    first_view,        \* partition key -> view returned by the first fetch
                       \* that succeeded since the last clear, refresh or
                       \* mutation of the key
    settled_view       \* as first_view, also reset when a build that ran
                       \* concurrently installs its view

cacheVars == <<mcp_configuration, upstream, fetcher, response, first_view,
               settled_view>>

VARIABLES
    (* ---- call records: the metadata table, the blob store, the callers ---- *)
    table,             \* call uuid -> the MCPFunctionCallModel item
    s3,                \* call uuid -> body of mcp_content/{uuid}.json
    next_uuid,         \* the next value uuid.uuid4() gives
    dispatcher,        \* the event loop inside async_execute_tool_function
    run,               \* slot -> a running execute_decorator wrapper; slot 0
                       \* is the request itself, slot u the thread of call u
    outcome,           \* what the call that ended last gave its caller
    handler_result     \* call uuid -> what its background handler returned

callVars == <<table, s3, next_uuid, dispatcher, run, outcome, handler_result>>

VARIABLES
    (* ---- the bearer-token guard ---- *)
    auth_provider,     \* Config.auth_provider
    exchange,          \* the request FlexJWTMiddleware.dispatch saw last and
                       \* what became of it
    admin_static_token, \* Config.admin_static_token
    token_request      \* the POST /auth/token answered last and its response

authVars == <<auth_provider, exchange, admin_static_token, token_request>>

VARIABLES
    (* ---- the build of a configuration, query by query ---- *)
    build              \* position and locals of a running
                       \* Config.fetch_mcp_configuration from its step 4 on,
                       \* with the answers its queries got

VARIABLES
    (* ---- the JSON-RPC layer ---- *)
    rpc                \* the request the processor handled last and the
                       \* response it was given (None = no request yet)

VARIABLES
    (* ---- the edge of the application (mcp_app.py) ---- *)
    request_counts,    \* request_counts: client ip -> times of its admitted
                       \* requests (mcp_app.py:27)
    rate,              \* the clock, the admitted requests by method, and
                       \* the answer of the last rate_limit_check
    lifespan,          \* position of the lifespan context manager
    missed             \* the last call of get_missed_messages on a header
                       \* value and what it gave (None = no call yet)

edgeVars == <<request_counts, rate, lifespan, missed>>

appVars == <<build, rpc, edgeVars>>

ClientIds == 1..MaxClients

(***************************************************************************)
(* The manager's state as one value, so that its methods are functions     *)
(* from state to state and compose the way the code calls them.            *)
(***************************************************************************)
Mgr == [clients |-> _clients, user_clients |-> _user_clients,
        user_keys |-> _user_keys,
        history |-> _message_history, mid |-> _message_id_seq, queue |-> queue]

(* a queue without maxsize is never full *)
QueueFull_never(q) == FALSE

(* asyncio.Queue(maxsize=max_queue_size).full() *)
QueueFull(q) == Len(q) >= max_queue_size

(* a bounded buffer that refuses a new entry once it is full *)
history_keep_oldest(h, m) == IF Len(h) >= max_history THEN h ELSE Append(h, m)

(* deque(maxlen=max_history).append *)
history_append(h, m) ==
    LET a == Append(h, m)
    IN IF Len(a) > max_history THEN SubSeq(a, 2, Len(a)) ELSE a

(* next(itertools.count(1)) on a counter made for the call *)
stamp_from_fresh_counter(S, message) == [message EXCEPT !.id = 1]

(* message_id = next(self._message_id_seq); dict(message, id=message_id) *)
stamp(S, message) == [message EXCEPT !.id = S.mid]

(* a cleanup that forgets the user mappings *)
_cleanup_client_map_only(S, client_id) ==
    [S EXCEPT !.clients = @ \ {client_id}]

(* SSEManager._cleanup_dead_client *)
_cleanup_dead_client(S, client_id) ==
    [S EXCEPT !.clients = @ \ {client_id},
              !.user_clients = [u \in Users |-> @[u] \ {client_id}],
              !.user_keys = {u \in @ : S.user_clients[u] \ {client_id} # {}}]

(* SSEManager.send_to_client: the new state and the returned bool *)
send_to_client(S, client_id, message) ==
    LET m == stamp(S, message)
        S1 == [S EXCEPT !.mid = @ + 1, !.history = history_append(@, m)]
    IN IF client_id \notin S1.clients
       THEN [S |-> S1, ret |-> FALSE]
       ELSE IF QueueFull(S1.queue[client_id])
            THEN [S |-> _cleanup_dead_client(S1, client_id), ret |-> FALSE]
            ELSE [S |-> [S1 EXCEPT !.queue[client_id] = Append(@, m)],
                  ret |-> TRUE]

(* a broadcast that leaves the clients with a full queue registered *)
broadcast_without_cleanup(S, message) ==
    LET m == [message EXCEPT !.id = S.mid]
        live == {c \in S.clients : Len(S.queue[c]) < max_queue_size}
    IN [S |-> [S EXCEPT !.mid = @ + 1,
                        !.history = Append(@, m),
                        !.queue = [c \in ClientIds |->
                             IF c \in live THEN Append(@[c], m) ELSE @[c]]],
        ret |-> Cardinality(live)]

(* SSEManager.broadcast_message: the new state and the success count *)
broadcast_message(S, message) ==
    LET m == stamp(S, message)
        S1 == [S EXCEPT !.mid = @ + 1, !.history = history_append(@, m)]
        dead_clients == {c \in S1.clients : QueueFull(S1.queue[c])}
        live == S1.clients \ dead_clients
        S2 == [S1 EXCEPT !.queue = [c \in ClientIds |->
                             IF c \in live THEN Append(@[c], m) ELSE @[c]]]
        S3 == [S2 EXCEPT !.clients = @ \ dead_clients,
                         !.user_clients = [u \in Users |-> @[u] \ dead_clients],
                         !.user_keys =
                             IF dead_clients = {} THEN @
                             ELSE {u \in @ :
                                     S2.user_clients[u] \ dead_clients # {}}]
    IN [S |-> S3, ret |-> Cardinality(live)]

(* SSEManager.send_to_user over the snapshot taken by get_clients_for_user, *)
(* visited in the order `order`                                             *)
RECURSIVE send_each(_, _, _, _)
send_each(S, order, message, delivered) ==
    IF order = <<>> THEN [S |-> S, ret |-> delivered]
    ELSE LET r == send_to_client(S, Head(order), message)
         IN send_each(r.S, Tail(order), message, delivered \/ r.ret)

(* a send to a user that goes to every registered client *)
send_to_everyone(S, order, message) ==
    LET r == broadcast_message(S, message)
    IN [S |-> r.S, ret |-> r.ret > 0]

send_to_user(S, order, message) ==
    IF order = <<>> THEN [S |-> S, ret |-> FALSE]
    ELSE send_each(S, order, message, FALSE)

(* SSEManager.get_missed_messages *)
get_missed_messages(history, last_event_id) ==
    IF last_event_id = NoHeader THEN <<>>
    ELSE SelectSeq(history, LAMBDA msg : msg.id > last_event_id)

(* SSEManager.add_client *)
add_client(S, client_id, username) ==
    [S EXCEPT !.clients = @ \cup {client_id},
              !.user_clients[username] = @ \cup {client_id},
              !.user_keys = @ \cup {username},
              !.queue[client_id] = <<>>]

(* a removal that leaves the user's key with an empty set *)
remove_client_keeps_key(S, client_id, username) ==
    [S EXCEPT !.clients = @ \ {client_id},
              !.user_clients[username] = @ \ {client_id}]

(* SSEManager.remove_client *)
remove_client(S, client_id, username) ==
    [S EXCEPT !.clients = @ \ {client_id},
              !.user_clients[username] = @ \ {client_id},
              !.user_keys =
                  IF username \in @
                     /\ S.user_clients[username] \ {client_id} = {}
                  THEN @ \ {username} ELSE @]

(* SSEManager.cleanup_all *)
cleanup_all(S) ==
    [S EXCEPT !.clients = {}, !.user_clients = [u \in Users |-> {}],
              !.user_keys = {},
              !.history = <<>>]

Metadata == [id |-> 0]

InstallMgr(S) ==
    /\ _clients' = S.clients
    /\ _user_clients' = S.user_clients
    /\ _user_keys' = S.user_keys
    /\ _message_history' = S.history
    /\ _message_id_seq' = S.mid
    /\ queue' = S.queue

NoConn == [state |-> "unborn", username |-> ""]

InitSSE ==
    /\ _clients = {}
    /\ _user_clients = [u \in Users |-> {}]
    /\ _user_keys = {}
    /\ _message_history = <<>>
    /\ _client_id_seq = 1
    /\ _message_id_seq = 1
    /\ queue = [c \in ClientIds |-> <<>>]
    /\ conn = [c \in ClientIds |-> NoConn]
    /\ last_taken = [c \in ClientIds |-> 0]
    /\ returned = None

(***************************************************************************)
(* GET /{endpoint_id}/sse.  add_client, get_missed_messages and the puts   *)
(* run without suspension while the queue has room; `await queue.put` on   *)
(* a full queue suspends the handler until a consumer frees a slot, and    *)
(* the only consumer (the writer loop) starts after the handler returns,   *)
(* so the handler stays blocked.                                           *)
(***************************************************************************)
get_sse_stream(username, last_event_id) ==
    /\ _client_id_seq <= MaxClients
    /\ LET client_id == _client_id_seq
           S1 == add_client(Mgr, client_id, username)
           missed_messages == get_missed_messages(S1.history, last_event_id)
           placed == SubSeq(missed_messages, 1,
                            Min(Len(missed_messages), max_queue_size))
           replay_done == Len(placed) = Len(missed_messages)
           metadata_put == replay_done /\ ~QueueFull(placed)
           q == IF metadata_put THEN Append(placed, Metadata) ELSE placed
       IN /\ InstallMgr([S1 EXCEPT !.queue[client_id] = q])
          /\ _client_id_seq' = client_id + 1
          /\ conn' = [conn EXCEPT ![client_id] =
                        [state |-> IF metadata_put THEN "streaming" ELSE "blocked",
                         username |-> username]]
          /\ UNCHANGED last_taken
    /\ returned' = None
    /\ UNCHANGED <<cacheVars, callVars, authVars, appVars>>

(* sse_event_generator: message = await queue.get() *)
sse_event_generator_get(client_id) ==
    /\ conn[client_id].state = "streaming"
    /\ queue[client_id] # <<>>
    /\ last_taken' = [last_taken EXCEPT ![client_id] =
                         IF Head(queue[client_id]).id = 0 THEN @
                         ELSE Head(queue[client_id]).id]
    /\ queue' = [queue EXCEPT ![client_id] = Tail(@)]
    /\ returned' = None
    /\ UNCHANGED <<_clients, _user_clients, _user_keys, _message_history, _client_id_seq,
                   _message_id_seq, conn>>
    /\ UNCHANGED <<cacheVars, callVars, authVars, appVars>>

(* sse_event_generator: disconnect, cancellation or error, then the finally *)
sse_event_generator_exit(client_id) ==
    /\ conn[client_id].state = "streaming"
    /\ LET S1 == remove_client(Mgr, client_id, conn[client_id].username)
       IN InstallMgr([S1 EXCEPT !.queue[client_id] = <<>>])
    /\ conn' = [conn EXCEPT ![client_id] = [state |-> "closed", username |-> ""]]
    /\ last_taken' = [last_taken EXCEPT ![client_id] = 0]
    /\ returned' = None
    /\ UNCHANGED <<_client_id_seq>>
    /\ UNCHANGED <<cacheVars, callVars, authVars, appVars>>

(* The request of a stream ends: its client goes away.  A writer loop that *)
(* is running finds out at its next is_disconnected poll or by             *)
(* cancellation; a handler still suspended in `await queue.put` has no     *)
(* writer loop yet and no handler of its own for the end of the request.   *)
request_ends(client_id) ==
    /\ conn[client_id].state \in {"streaming", "blocked"}
    /\ conn' = [conn EXCEPT ![client_id].state =
                    IF @ = "streaming" THEN "disconnected" ELSE "abandoned"]
    /\ returned' = None
    /\ UNCHANGED <<_clients, _user_clients, _user_keys, _message_history, _client_id_seq,
                   _message_id_seq, queue, last_taken>>
    /\ UNCHANGED <<cacheVars, callVars, authVars, appVars>>

(* sse_event_generator: the finally block of a writer loop whose request   *)
(* has ended                                                               *)
sse_event_generator_finally(client_id) ==
    /\ conn[client_id].state = "disconnected"
    /\ LET S1 == remove_client(Mgr, client_id, conn[client_id].username)
       IN InstallMgr([S1 EXCEPT !.queue[client_id] = <<>>])
    /\ conn' = [conn EXCEPT ![client_id] = [state |-> "closed", username |-> ""]]
    /\ last_taken' = [last_taken EXCEPT ![client_id] = 0]
    /\ returned' = None
    /\ UNCHANGED <<_client_id_seq>>
    /\ UNCHANGED <<cacheVars, callVars, authVars, appVars>>

(* What the caller of a send operation holds afterwards: the call and its   *)
(* result when it keeps the result, nothing when it discards it.            *)
Kept(keep, call) == IF keep THEN call ELSE None

(* mcp_app.broadcast_to_clients, while fewer than `budget` ids are         *)
(* allocated                                                               *)
broadcast_within(budget, keep) ==
    /\ _message_id_seq <= budget
    /\ LET r == broadcast_message(Mgr, [id |-> 0])
       IN /\ InstallMgr(r.S)
          /\ returned' = Kept(keep, [op |-> "broadcast_message",
                                   ret |-> r.ret])
    /\ UNCHANGED <<_client_id_seq, conn, last_taken>>
    /\ UNCHANGED <<cacheVars, callVars, authVars, appVars>>

broadcast_to_clients(keep) == broadcast_within(MaxMessages, keep)

(* mcp_app.send_to_client, while fewer than `budget` ids are allocated *)
send_to_client_within(budget, cid, keep) ==
    /\ _message_id_seq <= budget
    /\ LET r == send_to_client(Mgr, cid, [id |-> 0])
       IN /\ InstallMgr(r.S)
          /\ returned' = Kept(keep, [op |-> "send_to_client",
                                   client_id |-> cid, ret |-> r.ret])
    /\ UNCHANGED <<_client_id_seq, conn, last_taken>>
    /\ UNCHANGED <<cacheVars, callVars, authVars, appVars>>

app_send_to_client(cid, keep) == send_to_client_within(MaxMessages, cid, keep)

(* mcp_app.send_to_user, as called by post_sse_message *)
app_send_to_user(username, keep) ==
    /\ _message_id_seq + Cardinality(_user_clients[username]) <= MaxMessages + 1
    /\ \E order \in Perms(_user_clients[username]) :
          LET r == send_to_user(Mgr, order, [id |-> 0])
          IN /\ InstallMgr(r.S)
             /\ returned' = Kept(keep, [op |-> "send_to_user",
                                      username |-> username,
                                      ret |-> r.ret])
    /\ UNCHANGED <<_client_id_seq, conn, last_taken>>
    /\ UNCHANGED <<cacheVars, callVars, authVars, appVars>>

(* JSON-RPC messages: a request and a message without a method. *)
Messages == {[id |-> 1, method |-> "initialize"],
             [id |-> 1, result |-> "pong"]}

get(message, key) == IF key \in DOMAIN message THEN message[key] ELSE None

(* mcp_server.process_mcp_message, for the methods that need no           *)
(* configuration                                                           *)
process_mcp_message(message) ==
    IF get(message, "method") = "initialize"
    THEN [jsonrpc |-> "2.0", id |-> get(message, "id"),
          result |-> "protocolVersion"]
    ELSE [jsonrpc |-> "2.0", id |-> get(message, "id"), error |-> -32601]

(* an activity envelope that leaves the response out *)
activity_without_response(message, rpc_response) ==
    [id |-> 0, type |-> "mcp_activity", method |-> message.method,
     request |-> message, response |-> None]

(* the envelope post_sse_message hands to send_to_user *)
activity(message, rpc_response) ==
    [id |-> 0, type |-> "mcp_activity", method |-> message.method,
     request |-> message, response |-> rpc_response]

(* POST /{endpoint_id}/sse *)
post_sse_message(username, message) ==
    /\ _message_id_seq + Cardinality(_user_clients[username]) <= MaxMessages + 1
    /\ IF "method" \notin DOMAIN message
       THEN /\ returned' = [op |-> "post_sse_message", username |-> username,
                            message |-> message, status_code |-> 400]
            /\ UNCHANGED <<_clients, _user_clients, _user_keys, _message_history,
                           _message_id_seq, queue>>
       ELSE LET rpc_response == process_mcp_message(message)
            IN \E order \in Perms(_user_clients[username]) :
                  LET r == send_to_user(Mgr, order, activity(message, rpc_response))
                  IN /\ InstallMgr(r.S)
                     /\ returned' = [op |-> "post_sse_message",
                                     username |-> username,
                                     message |-> message,
                                     status_code |-> 200,
                                     body |-> rpc_response]
    /\ UNCHANGED <<_client_id_seq, conn, last_taken>>
    /\ UNCHANGED <<cacheVars, callVars, authVars, appVars>>

(* POST /{endpoint_id}/mcp *)
post_mcp_message(username, message) ==
    /\ returned' = [op |-> "post_mcp_message", username |-> username,
                    message |-> message, status_code |-> 200,
                    body |-> process_mcp_message(message)]
    /\ UNCHANGED <<_clients, _user_clients, _user_keys, _message_history, _client_id_seq,
                   _message_id_seq, queue, conn, last_taken>>
    /\ UNCHANGED <<cacheVars, callVars, authVars, appVars>>

(* lifespan: the shutdown half.  sse_manager is a module global, so it      *)
(* outlives the lifespan that cleaned it and serves the next one.           *)
lifespan_shutdown ==
    /\ InstallMgr(cleanup_all(Mgr))
    /\ returned' = None
    /\ UNCHANGED <<_client_id_seq, conn, last_taken>>
    /\ UNCHANGED <<cacheVars, callVars, authVars, appVars>>

(* The requests of the users in U, in any order and interleaving, the sends *)
(* by callers that discard the result.                                      *)
NextSSE(U) ==
    \/ \E u \in U, k \in {NoHeader} \cup (0..(_message_id_seq - 1)) :
          get_sse_stream(u, k)
    \/ \E c \in ClientIds : sse_event_generator_get(c)
    \/ \E c \in ClientIds : sse_event_generator_exit(c)
    \/ broadcast_to_clients(FALSE)
    \/ \E c \in ClientIds : app_send_to_client(c, FALSE)
    \/ \E u \in U : app_send_to_user(u, FALSE)

(* The streams of the users in U and the sends to them by callers that     *)
(* keep the result.                                                         *)
NextFanout(U) ==
    \/ \E u \in U : get_sse_stream(u, NoHeader)
    \/ \E c \in ClientIds : sse_event_generator_get(c)
    \/ \E c \in ClientIds : sse_event_generator_exit(c)
    \/ \E c \in ClientIds : app_send_to_client(c, TRUE)
    \/ \E u \in U : app_send_to_user(u, TRUE)

(* The streams of the users in U and the messages they post. *)
NextPost(U) ==
    \/ \E u \in U : get_sse_stream(u, NoHeader)
    \/ \E c \in ClientIds : sse_event_generator_get(c)
    \/ \E c \in ClientIds : sse_event_generator_exit(c)
    \/ \E u \in U, message \in Messages : post_sse_message(u, message)
    \/ \E u \in U, message \in Messages : post_mcp_message(u, message)

(* a request that carries something of the user who posts it *)
PrivateMessage(username) ==
    [id |-> 1, method |-> "initialize", params |-> [secret |-> username]]

(* Streams opened with and without Last-Event-ID by two users, and the     *)
(* messages each of them posts.                                            *)
NextIsolation(U) ==
    \/ \E u \in U, k \in {NoHeader} \cup (0..(_message_id_seq - 1)) :
          get_sse_stream(u, k)
    \/ \E c \in ClientIds : sse_event_generator_get(c)
    \/ \E c \in ClientIds : sse_event_generator_exit(c)
    \/ \E u \in U : post_sse_message(u, PrivateMessage(u))

(* Streams opened with and without Last-Event-ID, broadcasts, and the ends *)
(* of the requests.                                                        *)
NextStreamEnd(U) ==
    \/ \E u \in U, k \in {NoHeader} \cup (0..(_message_id_seq - 1)) :
          get_sse_stream(u, k)
    \/ \E c \in ClientIds : sse_event_generator_get(c)
    \/ \E c \in ClientIds : request_ends(c)
    \/ \E c \in ClientIds : sse_event_generator_finally(c)
    \/ broadcast_to_clients(FALSE)

(* Streams opened without Last-Event-ID, the sends by callers that keep the *)
(* result, and the shutdown of a lifespan.                                  *)
(* Enough sends to push the oldest envelope out of the history. *)
MaxRecent == max_history + 1

NextHistory(U) ==
    \/ \E u \in U : get_sse_stream(u, NoHeader)
    \/ broadcast_within(MaxRecent, FALSE)
    \/ \E c \in ClientIds : send_to_client_within(MaxRecent, c, FALSE)
    \/ lifespan_shutdown

(* Streams of two users that open and end, sends with evictions, and the   *)
(* shutdown of a lifespan.                                                 *)
NextManager(U) ==
    \/ \E u \in U : get_sse_stream(u, NoHeader)
    \/ \E c \in ClientIds : sse_event_generator_exit(c)
    \/ \E c \in ClientIds : request_ends(c)
    \/ \E c \in ClientIds : sse_event_generator_finally(c)
    \/ broadcast_to_clients(FALSE)
    \/ \E c \in ClientIds : app_send_to_client(c, FALSE)
    \/ \E u \in U : app_send_to_user(u, FALSE)
    \/ lifespan_shutdown

NextLifespan(U) ==
    \/ \E u \in U : get_sse_stream(u, NoHeader)
    \/ \E c \in ClientIds : sse_event_generator_get(c)
    \/ \E c \in ClientIds : sse_event_generator_exit(c)
    \/ broadcast_to_clients(TRUE)
    \/ \E c \in ClientIds : app_send_to_client(c, TRUE)
    \/ \E u \in U : app_send_to_user(u, TRUE)
    \/ lifespan_shutdown

(***************************************************************************)
(* The configuration cache.                                                *)
(*                                                                         *)
(* Config.fetch_mcp_configuration is a synchronous function called from    *)
(* the event loop and from the worker threads of async tools; between its  *)
(* cache check, its upstream queries and its final assignment other        *)
(* threads run.  The stored configuration of a partition is abstracted to  *)
(* a version number that every successful configuration mutation raises.   *)
(***************************************************************************)
Fetchers == 1..MaxFetchers
Endpoints == {"x"}
NoPart == ""
Parts == {NoPart, "p1"}

(* mcp_app._get_partition_key: f"{endpoint_id}#{part_id}" or endpoint_id,   *)
(* a string being the sequence of its pieces                                *)
_get_partition_key(endpoint_id, part_id) ==
    IF part_id # NoPart THEN <<endpoint_id, "#", part_id>> ELSE <<endpoint_id>>

PartitionKeys == {_get_partition_key(e, part) : e \in Endpoints, part \in Parts}

(* operation names as they appear in a GraphQL document, split into words  *)
insertUpdateMcpFunction == <<"insertUpdate", "McpFunction">>
deleteMcpFunction == <<"delete", "McpFunction">>
insertUpdateMcpModule == <<"insertUpdate", "McpModule">>
deleteMcpModule == <<"delete", "McpModule">>
insertUpdateMcpSetting == <<"insertUpdate", "McpSetting">>
deleteMcpSetting == <<"delete", "McpSetting">>
loadMcpConfiguration == <<"load", "McpConfiguration">>
insertUpdateMcpFunctionCall == <<"insertUpdate", "McpFunction", "Call">>
deleteMcpFunctionCall == <<"delete", "McpFunction", "Call">>
mcpFunctionList == <<"mcp", "FunctionList">>

(* the mutations of handlers/schema.py that change a partition's functions, *)
(* modules or settings                                                      *)
ConfigurationMutations ==
    {insertUpdateMcpFunction, deleteMcpFunction, insertUpdateMcpModule,
     deleteMcpModule, insertUpdateMcpSetting, deleteMcpSetting,
     loadMcpConfiguration}

(* the mutations on call records *)
CallRecordMutations == {insertUpdateMcpFunctionCall, deleteMcpFunctionCall}

Queries == ConfigurationMutations \cup CallRecordMutations \cup {mcpFunctionList}

(* Python's `mutation_name in query` on strings *)
IsSubstring(a, b) ==
    \E i \in 0..(Len(b) - Len(a)) : SubSeq(b, i + 1, i + Len(a)) = a

(* mcp_app.mcp_core_graphql: is_config_mutation *)
is_config_mutation(query) ==
    \E mutation_name \in {insertUpdateMcpFunction, deleteMcpFunction,
                          insertUpdateMcpModule, deleteMcpModule,
                          insertUpdateMcpSetting, deleteMcpSetting} :
        IsSubstring(mutation_name, query)

(* A view: the function part and the module part each carry the upstream   *)
(* version they were read at; built_through is the last step of the build  *)
(* algorithm (config.py:386-450) the dict went through: 3 once the initial *)
(* structure with "modules": [] exists, 4 once modules is assigned.  What   *)
(* mcp_configuration.get gives for an absent key is None.                  *)
NoView == None

initial_structure(functions_version) ==
    [functions |-> <<functions_version>>, modules |-> <<>>, built_through |-> 3]

(* the structure of step 3 left as it is, "modules": [] *)
keep_initial_modules(view, modules_info) == view

(* mcp_configuration["modules"] = modules_info *)
with_modules(view, modules_info) ==
    [view EXCEPT !.modules = modules_info, !.built_through = 4]

(* a clear that empties the cache whatever key it is given *)
clear_every_partition(cache, partition_key) ==
    [k \in PartitionKeys |-> NoView]

(* Config.clear_mcp_configuration_cache *)
clear_mcp_configuration_cache(cache, partition_key) ==
    IF partition_key # <<>>
    THEN [k \in PartitionKeys |-> IF k = partition_key THEN NoView ELSE cache[k]]
    ELSE [k \in PartitionKeys |-> NoView]

(* a cache test that never hits *)
rebuild_always(cache, partition_key, force_refresh) == FALSE

(* the cache test of fetch_mcp_configuration *)
cache_hit(cache, partition_key, force_refresh) ==
    ~force_refresh /\ cache[partition_key] # NoView

(* a thread that is not inside fetch_mcp_configuration *)
Idle == [pc |-> "idle"]

(* the attempt number of a fetch that get_mcp_configuration_with_retry did *)
(* not start                                                               *)
NoAttempt == -1

(* the default of get_mcp_configuration_with_retry, which every caller uses *)
max_retries == 1

(* a wrapper that gives up at the first failure *)
no_retry(attempt) == FALSE

(* if attempt < max_retries; false for a fetch called without the wrapper *)
retries_left(attempt) == attempt # NoAttempt /\ attempt < max_retries

(* queries: the upstream queries the call issued; repeat: the call took    *)
(* the hit path while settled_view held a view for its key                 *)
NoResponse == [outcome |-> "none"]

InitCache ==
    /\ mcp_configuration = [k \in PartitionKeys |-> NoView]
    /\ upstream = [k \in PartitionKeys |-> 0]
    /\ fetcher = [t \in Fetchers |-> Idle]
    /\ response = NoResponse
    /\ first_view = [k \in PartitionKeys |-> NoView]
    /\ settled_view = [k \in PartitionKeys |-> NoView]

(* fetch_mcp_configuration, lines 375-376: the cache test and the hit      *)
(* path, as attempt number `attempt` of the wrapper or without the wrapper *)
enter_fetch(t, partition_key, force_refresh, attempt) ==
    /\ IF cache_hit(mcp_configuration, partition_key, force_refresh)
       THEN /\ response' = [outcome |-> "returned",
                            view |-> mcp_configuration[partition_key],
                            queries |-> 0,
                            repeat |-> settled_view[partition_key] # NoView,
                            attempt |-> attempt]
            /\ first_view' = [first_view EXCEPT ![partition_key] =
                                IF @ = NoView
                                THEN mcp_configuration[partition_key] ELSE @]
            /\ settled_view' = [settled_view EXCEPT ![partition_key] =
                                  IF @ = NoView
                                  THEN mcp_configuration[partition_key] ELSE @]
            /\ UNCHANGED fetcher
       ELSE /\ fetcher' = [fetcher EXCEPT ![t] =
                             [pc |-> "function_list",
                              partition_key |-> partition_key,
                              force_refresh |-> force_refresh, view |-> NoView,
                              attempt |-> attempt]]
            /\ first_view' = [first_view EXCEPT ![partition_key] =
                                IF force_refresh THEN NoView ELSE @]
            /\ settled_view' = [settled_view EXCEPT ![partition_key] =
                                  IF force_refresh THEN NoView ELSE @]
            /\ response' = NoResponse
    /\ UNCHANGED <<mcp_configuration, upstream>>
    /\ UNCHANGED <<sseVars, callVars, authVars, appVars>>

(* Config.fetch_mcp_configuration called without the wrapper *)
fetch_mcp_configuration(t, partition_key, force_refresh) ==
    /\ fetcher[t].pc = "idle"
    /\ enter_fetch(t, partition_key, force_refresh, NoAttempt)

(* mcp_utility.get_mcp_configuration_with_retry: attempt 0, unforced *)
get_mcp_configuration_with_retry(t, partition_key) ==
    /\ fetcher[t].pc = "idle"
    /\ enter_fetch(t, partition_key, FALSE, 0)

(* lines 387-441: the MCP_FUNCTION_LIST query; errors raise.  Under the    *)
(* wrapper the error of an attempt with retries left is caught: the        *)
(* partition's cache entry is cleared and the next attempt enters the      *)
(* fetch with force_refresh (mcp_utility.py:360-371), which reads no cache. *)
fetch_function_list(t, ok) ==
    /\ fetcher[t].pc = "function_list"
    /\ IF ok
       THEN /\ fetcher' = [fetcher EXCEPT ![t].pc = "modules",
                              ![t].view = initial_structure(
                                             upstream[fetcher[t].partition_key])]
            /\ response' = NoResponse
            /\ UNCHANGED <<mcp_configuration, first_view, settled_view>>
       ELSE IF retries_left(fetcher[t].attempt)
       THEN LET partition_key == fetcher[t].partition_key
            IN /\ mcp_configuration' =
                      clear_mcp_configuration_cache(mcp_configuration,
                                                    partition_key)
               /\ fetcher' = [fetcher EXCEPT ![t] =
                                [pc |-> "function_list",
                                 partition_key |-> partition_key,
                                 force_refresh |-> TRUE, view |-> NoView,
                                 attempt |-> fetcher[t].attempt + 1]]
               /\ first_view' = [first_view EXCEPT ![partition_key] = NoView]
               /\ settled_view' = [settled_view EXCEPT ![partition_key] = NoView]
               /\ response' = NoResponse
       ELSE /\ fetcher' = [fetcher EXCEPT ![t] = Idle]
            /\ response' = [outcome |-> "raised", view |-> NoView,
                            queries |-> 1, repeat |-> FALSE,
                            attempt |-> fetcher[t].attempt]
            /\ UNCHANGED <<mcp_configuration, first_view, settled_view>>
    /\ UNCHANGED upstream
    /\ UNCHANGED <<sseVars, callVars, authVars, appVars>>

(* lines 444-447: _fetch_modules_and_settings; a module whose query fails  *)
(* is skipped                                                              *)
_fetch_modules_and_settings(t, ok) ==
    /\ fetcher[t].pc = "modules"
    /\ LET modules_info == IF ok THEN <<upstream[fetcher[t].partition_key]>>
                           ELSE <<>>
       IN fetcher' = [fetcher EXCEPT ![t].pc = "install",
                         ![t].view = with_modules(@, modules_info)]
    /\ response' = NoResponse
    /\ UNCHANGED <<mcp_configuration, upstream, first_view, settled_view>>
    /\ UNCHANGED <<sseVars, callVars, authVars, appVars>>

(* lines 450-457: cls.mcp_configuration[partition_key] = mcp_configuration *)
fetch_install(t) ==
    /\ fetcher[t].pc = "install"
    /\ LET partition_key == fetcher[t].partition_key
           view == fetcher[t].view
       IN /\ mcp_configuration' = [mcp_configuration EXCEPT ![partition_key] = view]
          /\ response' = [outcome |-> "returned", view |-> view,
                          queries |-> 2, repeat |-> FALSE,
                          attempt |-> fetcher[t].attempt]
          /\ first_view' = [first_view EXCEPT ![partition_key] =
                              IF @ = NoView \/ fetcher[t].force_refresh
                              THEN view ELSE @]
          /\ settled_view' = [settled_view EXCEPT ![partition_key] = view]
    /\ fetcher' = [fetcher EXCEPT ![t] = Idle]
    /\ UNCHANGED upstream
    /\ UNCHANGED <<sseVars, callVars, authVars, appVars>>

(* POST /{endpoint_id}/admin/cache/refresh: its cache test always misses *)
refresh_mcp_cache(t, endpoint_id, part_id) ==
    fetch_mcp_configuration(t, _get_partition_key(endpoint_id, part_id), TRUE)

(* DELETE /{endpoint_id}/admin/cache *)
clear_endpoint_cache(endpoint_id, part_id) ==
    LET partition_key == _get_partition_key(endpoint_id, part_id)
    IN /\ mcp_configuration' =
              clear_mcp_configuration_cache(mcp_configuration, partition_key)
       /\ first_view' = [first_view EXCEPT ![partition_key] = NoView]
       /\ settled_view' = [settled_view EXCEPT ![partition_key] = NoView]
       /\ response' = NoResponse
       /\ UNCHANGED <<upstream, fetcher>>
       /\ UNCHANGED <<sseVars, callVars, authVars, appVars>>

(* DELETE /admin/cache *)
clear_all_cache ==
    /\ mcp_configuration' = clear_mcp_configuration_cache(mcp_configuration, <<>>)
    /\ first_view' = [k \in PartitionKeys |-> NoView]
    /\ settled_view' = [k \in PartitionKeys |-> NoView]
    /\ response' = NoResponse
       /\ UNCHANGED <<upstream, fetcher>>
    /\ UNCHANGED <<sseVars, callVars, authVars, appVars>>

(* POST /{endpoint_id}/mcp_core_graphql; ok: the result has no "errors" *)
mcp_core_graphql(endpoint_id, part_id, query, ok) ==
    LET partition_key == _get_partition_key(endpoint_id, part_id)
        mutated == ok /\ query \in ConfigurationMutations
        cleared == ok /\ is_config_mutation(query)
    IN /\ mutated => upstream[partition_key] < MaxVersion
       /\ upstream' = [upstream EXCEPT ![partition_key] =
                          IF mutated THEN @ + 1 ELSE @]
       /\ mcp_configuration' =
              IF cleared
              THEN clear_mcp_configuration_cache(mcp_configuration, <<endpoint_id>>)
              ELSE mcp_configuration
       /\ first_view' = [k \in PartitionKeys |->
              IF (mutated /\ k = partition_key) \/ (cleared /\ k = <<endpoint_id>>)
              THEN NoView ELSE first_view[k]]
       /\ settled_view' = [k \in PartitionKeys |->
              IF (mutated /\ k = partition_key) \/ (cleared /\ k = <<endpoint_id>>)
              THEN NoView ELSE settled_view[k]]
       /\ response' = NoResponse
       /\ UNCHANGED fetcher
       /\ UNCHANGED <<sseVars, callVars, authVars, appVars>>

(* The threads that fetch through the wrapper, and the requests that       *)
(* change the stored configuration or clear the cache meanwhile.           *)
NextRetry ==
    \/ \E t \in Fetchers, e \in Endpoints :
          get_mcp_configuration_with_retry(t, _get_partition_key(e, NoPart))
    \/ \E t \in Fetchers, ok \in BOOLEAN : fetch_function_list(t, ok)
    \/ \E t \in Fetchers, ok \in BOOLEAN : _fetch_modules_and_settings(t, ok)
    \/ \E t \in Fetchers : fetch_install(t)
    \/ \E e \in Endpoints : clear_endpoint_cache(e, NoPart)
    \/ \E e \in Endpoints, ok \in BOOLEAN :
          mcp_core_graphql(e, NoPart, insertUpdateMcpFunction, ok)

(* The requests that carry one of the Part-ID headers P and, on the GraphQL *)
(* endpoint, one of the operations Q, served while the threads T run       *)
(* fetch_mcp_configuration.                                                *)
NextCache(P, T, Q) ==
    \/ \E t \in T, e \in Endpoints, part \in P :
          fetch_mcp_configuration(t, _get_partition_key(e, part), FALSE)
    \/ \E t \in T, ok \in BOOLEAN : fetch_function_list(t, ok)
    \/ \E t \in T, ok \in BOOLEAN : _fetch_modules_and_settings(t, ok)
    \/ \E t \in T : fetch_install(t)
    \/ \E t \in T, e \in Endpoints, part \in P : refresh_mcp_cache(t, e, part)
    \/ \E e \in Endpoints, part \in P : clear_endpoint_cache(e, part)
    \/ clear_all_cache
    \/ \E e \in Endpoints, part \in P, query \in Q, ok \in BOOLEAN :
          mcp_core_graphql(e, part, query, ok)

(***************************************************************************)
(* Call records.                                                           *)
(*                                                                         *)
(* handlers/mcp_utility.py reaches the records through the GraphQL         *)
(* mutation InsertUpdateMcpFunctionCall and the query mcpFunctionCall,     *)
(* which hand over to models/mcp_function_call.py.  A text is the sequence *)
(* of its pieces and None the empty sequence.  The store answers every     *)
(* well-formed request: no fault of the table or of the blob store is      *)
(* injected.                                                               *)
(***************************************************************************)
Uuids == 1..MaxCalls
NoUuid == 0
Slots == 0..MaxCalls
Default == <<"default">>
Result == <<"result">>
Milliseconds == <<"ms">>
Traceback == <<"traceback">>

(* Serializer.json_dumps and pydantic's model_dump *)
json_dumps(content) == <<"json">> \o content
model_dump(text) == <<"dump">> \o text

(* a content that fits an item of the table, and one that does not *)
Small == <<"c">>
Big == [i \in 1..(ItemSizeLimit + 1) |-> "c"]
Oversize(content) == Len(content) > ItemSizeLimit

(* MCPFunctionCallModel: an item of the table is a record of its           *)
(* attributes; no item under a uuid is None                                *)
NoRecord == None

(* keyword arguments: the keys present and their values *)
Kwargs(keys, uuid, content, status, notes, time_spent) ==
    [keys |-> keys, mcp_function_call_uuid |-> uuid, content |-> content,
     status |-> status, notes |-> notes, time_spent |-> time_spent]

Db == [table |-> table, s3 |-> s3, next_uuid |-> next_uuid]

InstallDb(db) ==
    /\ table' = db.table
    /\ s3' = db.s3
    /\ next_uuid' = db.next_uuid

(* models.get_mcp_function_call_type: the record as MCPFunctionCallType    *)
(* (types/mcp_function_call.py) shows it, its content read from the blob   *)
(* when content_in_s3 is set                                               *)
get_mcp_function_call_type(db, mcp_function_call_uuid) ==
    LET model == db.table[mcp_function_call_uuid]
    IN [partitionKey |-> model.partition_key,
        mcpFunctionCallUuid |-> mcp_function_call_uuid,
        content |-> IF model.content_in_s3 THEN db.s3[mcp_function_call_uuid]
                    ELSE model.content,
        status |-> model.status,
        notes |-> model.notes,
        timeSpent |-> model.time_spent]

(* models.resolve_mcp_function_call *)
resolve_mcp_function_call(db, partition_key, mcp_function_call_uuid) ==
    LET count == IF /\ mcp_function_call_uuid \in Uuids
                    /\ db.table[mcp_function_call_uuid] # NoRecord
                    /\ db.table[mcp_function_call_uuid].partition_key = partition_key
                 THEN 1 ELSE 0
    IN IF count = 0
       THEN [found |-> FALSE, call |-> None]
       ELSE [found |-> TRUE,
             call |-> get_mcp_function_call_type(db, mcp_function_call_uuid)]

(* models.insert_update_mcp_function_call under insert_update_decorator,   *)
(* which supplies the range key of a new record and the entity of an       *)
(* existing one: the new store, whether it raised, and the uuid it wrote   *)
(* under                                                                   *)
insert_update_mcp_function_call(db, partition_key, kwargs) ==
    LET given == "mcp_function_call_uuid" \in kwargs.keys
        mcp_function_call_uuid ==
            IF given THEN kwargs.mcp_function_call_uuid ELSE db.next_uuid
        db1 == IF given THEN db ELSE [db EXCEPT !.next_uuid = @ + 1]
        entity == IF given /\ db.table[mcp_function_call_uuid] # NoRecord
                     /\ db.table[mcp_function_call_uuid].partition_key = partition_key
                  THEN db.table[mcp_function_call_uuid] ELSE NoRecord
        raise == [db |-> db, raised |-> TRUE, uuid |-> mcp_function_call_uuid]
    IN IF entity = NoRecord
       THEN (* lines 272-326 *)
            IF "name" \notin kwargs.keys THEN raise
            ELSE LET cols == [partition_key |-> partition_key,
                              status |-> IF "status" \in kwargs.keys
                                         THEN kwargs.status ELSE "initial",
                              content |-> IF "content" \in kwargs.keys
                                          THEN kwargs.content ELSE None,
                              content_in_s3 |-> FALSE,
                              notes |-> IF "notes" \in kwargs.keys
                                        THEN kwargs.notes ELSE None,
                              time_spent |-> IF "time_spent" \in kwargs.keys
                                             THEN kwargs.time_spent ELSE None]
                 IN IF ~Oversize(cols.content)
                    THEN [db |-> [db1 EXCEPT !.table[mcp_function_call_uuid] = cols],
                          raised |-> FALSE, uuid |-> mcp_function_call_uuid]
                    ELSE [db |-> [db1 EXCEPT
                                    !.s3[mcp_function_call_uuid] = json_dumps(cols.content),
                                    !.table[mcp_function_call_uuid] =
                                        [cols EXCEPT !.content = None,
                                                     !.content_in_s3 = TRUE]],
                          raised |-> FALSE, uuid |-> mcp_function_call_uuid]
       ELSE (* lines 328-377 *)
            LET updated == [entity EXCEPT
                              !.status = IF "status" \in kwargs.keys
                                         THEN kwargs.status ELSE @,
                              !.content = IF "content" \in kwargs.keys
                                          THEN kwargs.content ELSE @,
                              !.notes = IF "notes" \in kwargs.keys
                                        THEN kwargs.notes ELSE @,
                              !.time_spent = IF "time_spent" \in kwargs.keys
                                             THEN kwargs.time_spent ELSE @]
            IN IF ~Oversize(updated.content)
               THEN [db |-> [db1 EXCEPT !.table[mcp_function_call_uuid] = updated],
                     raised |-> FALSE, uuid |-> mcp_function_call_uuid]
               ELSE (* the blob is written, the update is not issued again *)
                    [db |-> [db1 EXCEPT
                               !.s3[mcp_function_call_uuid] = json_dumps(kwargs.content)],
                     raised |-> FALSE, uuid |-> mcp_function_call_uuid]

(* mutations.InsertUpdateMcpFunctionCall: only the declared Arguments      *)
(* reach the model function; has_content is none of its keys               *)
Arguments == {"mcp_function_call_uuid", "name", "mcp_type", "arguments",
              "has_content", "status", "notes", "time_spent", "updated_by"}

InsertUpdateMcpFunctionCall(db, partition_key, variables) ==
    LET r == insert_update_mcp_function_call(
                 db, partition_key, [variables EXCEPT !.keys = @ \cap Arguments])
    IN [db |-> r.db, errors |-> r.raised,
        call |-> IF r.raised THEN None
                 ELSE get_mcp_function_call_type(r.db, r.uuid)]

(* mcp_utility._insert_update_mcp_function_call *)
_insert_update_mcp_function_call(db, partition_key, kwargs) ==
    IF "mcp_function_call_uuid" \in kwargs.keys
    THEN LET content_json == IF "content" \in kwargs.keys /\ kwargs.content # None
                             THEN json_dumps(kwargs.content) ELSE None
             db1 == IF content_json # None
                    THEN [db EXCEPT !.s3[kwargs.mcp_function_call_uuid] = content_json]
                    ELSE db
         IN InsertUpdateMcpFunctionCall(db1, partition_key,
                Kwargs({"mcp_function_call_uuid", "has_content", "status",
                        "time_spent", "notes", "updated_by"},
                       kwargs.mcp_function_call_uuid, None, kwargs.status,
                       IF "notes" \in kwargs.keys THEN kwargs.notes ELSE None,
                       IF "time_spent" \in kwargs.keys THEN kwargs.time_spent
                       ELSE None))
    ELSE InsertUpdateMcpFunctionCall(db, partition_key,
             Kwargs({"name", "mcp_type", "arguments", "updated_by"},
                    NoUuid, None, "none", None, None))

(* mcp_utility._check_existing_function_call *)
_check_existing_function_call(db, partition_key, mcp_function_call_uuid) ==
    resolve_mcp_function_call(db, partition_key, mcp_function_call_uuid)

(* no dispatch in its polling loop; a slot with no execution running *)
IdleDispatcher == [pc |-> "idle"]

IdleRun == [pc |-> "idle"]

NoOutcome == [kind |-> "none", partition_key |-> None, uuid |-> NoUuid,
              raised |-> FALSE, updates |-> <<>>, exception |-> "none",
              text |-> None, status |-> "none", notes |-> None]

(* [TextContent(type="text", text=...)]: the text field is a str, and the   *)
(* model refuses any other value with a ValidationError                     *)
TextContent(partition_key, mcp_function_call) ==
    IF mcp_function_call.content = None
    THEN [NoOutcome EXCEPT !.kind = "raised",
                           !.partition_key = partition_key,
                           !.uuid = mcp_function_call.mcpFunctionCallUuid,
                           !.raised = TRUE, !.exception = "ValidationError",
                           !.status = mcp_function_call.status]
    ELSE [NoOutcome EXCEPT !.kind = "text",
                           !.partition_key = partition_key,
                           !.uuid = mcp_function_call.mcpFunctionCallUuid,
                           !.text = mcp_function_call.content,
                           !.status = mcp_function_call.status]

(* [EmbeddedResource(uri=mcp://function-call/{uuid}, text={uuid, status,    *)
(* notes})]                                                                 *)
EmbeddedResource(partition_key, uuid, status, notes) ==
    [NoOutcome EXCEPT !.kind = "resource", !.partition_key = partition_key,
                      !.uuid = uuid, !.status = status, !.notes = notes]

InitCall ==
    /\ table = [u \in Uuids |-> NoRecord]
    /\ s3 = [u \in Uuids |-> None]
    /\ next_uuid = 1
    /\ dispatcher = IdleDispatcher
    /\ run = [slot \in Slots |-> IdleRun]
    /\ outcome = NoOutcome
    /\ handler_result = [u \in Uuids |-> None]

(* call_tool, read_resource or get_prompt of mcp_server.py entering the     *)
(* decorated execute_*_function on the event loop                           *)
execute_function(partition_key) ==
    /\ dispatcher.pc = "idle"
    /\ run[0].pc = "idle"
    /\ run' = [run EXCEPT ![0] = [pc |-> "obtain", partition_key |-> partition_key,
                                  uuid_kwarg |-> NoUuid, record |-> NoUuid]]
    /\ UNCHANGED <<table, s3, next_uuid, dispatcher, outcome, handler_result>>
    /\ UNCHANGED <<sseVars, cacheVars, authVars, appVars>>

(* execute_decorator, lines 227-270: the lookup when a uuid was passed and  *)
(* the creation when no record was found and the partition is not default   *)
wrapper_obtain(slot) ==
    /\ run[slot].pc = "obtain"
    /\ LET partition_key == run[slot].partition_key
           existing == IF run[slot].uuid_kwarg # NoUuid
                       THEN _check_existing_function_call(Db, partition_key,
                                                          run[slot].uuid_kwarg)
                       ELSE [found |-> FALSE, call |-> None]
       IN IF partition_key # Default /\ ~existing.found
          THEN /\ next_uuid <= MaxCalls
               /\ LET r == _insert_update_mcp_function_call(Db, partition_key,
                               Kwargs({"name", "mcp_type", "arguments"},
                                      NoUuid, None, "none", None, None))
                  IN /\ InstallDb(r.db)
                     /\ run' = [run EXCEPT ![slot].pc = "handler",
                                   ![slot].record = r.call.mcpFunctionCallUuid]
          ELSE /\ run' = [run EXCEPT ![slot].pc = "handler",
                             ![slot].record =
                                 IF existing.found
                                 THEN existing.call.mcpFunctionCallUuid
                                 ELSE NoUuid]
               /\ UNCHANGED <<table, s3, next_uuid>>
    /\ UNCHANGED <<dispatcher, outcome, handler_result>>
    /\ UNCHANGED <<sseVars, cacheVars, authVars, appVars>>

(* execute_decorator, lines 272-333: the wrapped pipeline returns or        *)
(* raises, then the terminal update and the return or re-raise              *)
wrapper_finish(slot, raises) ==
    /\ run[slot].pc = "handler"
    /\ LET partition_key == run[slot].partition_key
           record == run[slot].record
           mcp_function_call == IF record = NoUuid THEN None
                                ELSE get_mcp_function_call_type(Db, record)
           content == model_dump(Result)
           completed == Kwargs({"mcp_function_call_uuid", "content", "status",
                                "time_spent", "updatedBy"},
                               record, content, "completed", None, Milliseconds)
           failed == Kwargs({"mcp_function_call_uuid", "notes", "status",
                             "updatedBy"},
                            record, None, "failed", Traceback, None)
       IN IF ~raises
          THEN /\ IF record # NoUuid
                  THEN InstallDb(_insert_update_mcp_function_call(
                                     Db, partition_key, completed).db)
                  ELSE UNCHANGED <<table, s3, next_uuid>>
               /\ outcome' = [NoOutcome EXCEPT
                                !.kind = "execution",
                                !.partition_key = partition_key,
                                !.uuid = record,
                                !.updates = IF record # NoUuid
                                            THEN <<completed>> ELSE <<>>]
               /\ handler_result' =
                      IF slot # 0 /\ record # NoUuid
                      THEN [handler_result EXCEPT ![record] = Result]
                      ELSE handler_result
          ELSE /\ IF record # NoUuid /\ "endpointId" \in DOMAIN mcp_function_call
                  THEN InstallDb(_insert_update_mcp_function_call(
                                     Db, mcp_function_call["endpointId"], failed).db)
                  ELSE UNCHANGED <<table, s3, next_uuid>>
               /\ outcome' = [NoOutcome EXCEPT
                                !.kind = "execution",
                                !.partition_key = partition_key,
                                !.uuid = record,
                                !.raised = TRUE,
                                !.updates =
                                    IF record # NoUuid
                                       /\ "endpointId" \in DOMAIN mcp_function_call
                                    THEN <<failed>> ELSE <<>>,
                                !.exception =
                                    IF record # NoUuid
                                       /\ "endpointId" \notin DOMAIN mcp_function_call
                                    THEN "KeyError" ELSE "original"]
               /\ UNCHANGED handler_result
    /\ run' = [run EXCEPT ![slot] = IdleRun]
    /\ UNCHANGED dispatcher
    /\ UNCHANGED <<sseVars, cacheVars, authVars, appVars>>

(* async_execute_tool_function, lines 831-859: a dispatch that carries the  *)
(* uuid of an earlier call                                                  *)
async_execute_tool_function_again(partition_key, mcp_function_call_uuid) ==
    /\ dispatcher.pc = "idle"
    /\ run[0].pc = "idle"
    /\ LET r == _check_existing_function_call(Db, partition_key,
                                              mcp_function_call_uuid)
       IN outcome' =
            IF ~r.found
            THEN [NoOutcome EXCEPT !.kind = "raised",
                                   !.partition_key = partition_key,
                                   !.uuid = mcp_function_call_uuid,
                                   !.raised = TRUE, !.exception = "TypeError"]
            ELSE IF r.call.status = "completed"
            THEN TextContent(partition_key, r.call)
            ELSE EmbeddedResource(partition_key, r.call.mcpFunctionCallUuid,
                                  r.call.status, r.call.notes)
    /\ UNCHANGED <<table, s3, next_uuid, dispatcher, run, handler_result>>
    /\ UNCHANGED <<sseVars, cacheVars, authVars, appVars>>

(* lines 861-908: the record is created and the thread started *)
async_execute_tool_function(partition_key) ==
    /\ dispatcher.pc = "idle"
    /\ run[0].pc = "idle"
    /\ next_uuid <= MaxCalls
    /\ LET r == _insert_update_mcp_function_call(Db, partition_key,
                    Kwargs({"name", "mcp_type", "arguments"},
                           NoUuid, None, "none", None, None))
           uuid == r.call.mcpFunctionCallUuid
       IN /\ InstallDb(r.db)
          /\ run' = [run EXCEPT ![uuid] =
                        [pc |-> "obtain", partition_key |-> partition_key,
                         uuid_kwarg |-> uuid, record |-> NoUuid]]
          /\ dispatcher' = [pc |-> "poll", partition_key |-> partition_key,
                            uuid |-> uuid, status |-> r.call.status,
                            notes |-> r.call.notes, polls |-> 0]
    /\ UNCHANGED <<outcome, handler_result>>
    /\ UNCHANGED <<sseVars, cacheVars, authVars, appVars>>

(* lines 914-926: one turn of the polling loop up to the status test; the   *)
(* window of three seconds with half a second between two polls leaves room *)
(* for MaxPolls of them                                                      *)
poll_check ==
    /\ dispatcher.pc = "poll"
    /\ dispatcher.polls < MaxPolls
    /\ LET mcp_function_call ==
               _check_existing_function_call(Db, dispatcher.partition_key,
                                             dispatcher.uuid).call
       IN IF mcp_function_call.status = "completed"
          THEN /\ outcome' = TextContent(dispatcher.partition_key,
                                         mcp_function_call)
               /\ dispatcher' = IdleDispatcher
          ELSE IF mcp_function_call.status = "failed"
          THEN /\ outcome' = EmbeddedResource(
                                 dispatcher.partition_key,
                                 mcp_function_call.mcpFunctionCallUuid,
                                 mcp_function_call.status,
                                 mcp_function_call.notes)
               /\ dispatcher' = IdleDispatcher
          ELSE /\ dispatcher' = [dispatcher EXCEPT
                                   !.status = mcp_function_call.status,
                                   !.notes = mcp_function_call.notes,
                                   !.polls = @ + 1,
                                   !.pc = IF mcp_function_call.status = "initial"
                                          THEN "poll_update" ELSE "poll"]
               /\ UNCHANGED outcome
    /\ UNCHANGED <<table, s3, next_uuid, run, handler_result>>
    /\ UNCHANGED <<sseVars, cacheVars, authVars, appVars>>

(* lines 927-940: the status read as initial is overwritten by in_process *)
poll_update ==
    /\ dispatcher.pc = "poll_update"
    /\ LET r == _insert_update_mcp_function_call(
                    Db, dispatcher.partition_key,
                    Kwargs({"mcp_function_call_uuid", "status"},
                           dispatcher.uuid, None, "in_process", None, None))
       IN /\ InstallDb(r.db)
          /\ dispatcher' = [dispatcher EXCEPT !.pc = "poll",
                                              !.status = r.call.status,
                                              !.notes = r.call.notes]
    /\ UNCHANGED <<run, outcome, handler_result>>
    /\ UNCHANGED <<sseVars, cacheVars, authVars, appVars>>

(* lines 914 and 942-961: the three seconds are over *)
poll_timeout ==
    /\ dispatcher.pc = "poll"
    /\ outcome' = EmbeddedResource(dispatcher.partition_key, dispatcher.uuid,
                                   dispatcher.status, dispatcher.notes)
    /\ dispatcher' = IdleDispatcher
    /\ UNCHANGED <<table, s3, next_uuid, run, handler_result>>
    /\ UNCHANGED <<sseVars, cacheVars, authVars, appVars>>

NextCall ==
    \/ \E partition_key \in {Default, <<"x">>} : execute_function(partition_key)
    \/ \E slot \in Slots : wrapper_obtain(slot)
    \/ \E slot \in Slots, raises \in BOOLEAN : wrapper_finish(slot, raises)
    \/ async_execute_tool_function(<<"x">>)
    \/ \E u \in Uuids : async_execute_tool_function_again(<<"x">>, u)
    \/ poll_check
    \/ poll_update
    \/ poll_timeout

(* AIMCPDaemonEngine.async_execute_tool_function (main.py:144-165), the    *)
(* entry point of the asynchronous invocation: it runs the decorated       *)
(* execute_tool_function with the partition key and the call uuid of its   *)
(* parameters                                                              *)
main_async_execute_tool_function(partition_key, mcp_function_call_uuid) ==
    /\ dispatcher.pc = "idle"
    /\ run[0].pc = "idle"
    /\ run' = [run EXCEPT ![0] = [pc |-> "obtain",
                                  partition_key |-> partition_key,
                                  uuid_kwarg |-> mcp_function_call_uuid,
                                  record |-> NoUuid]]
    /\ UNCHANGED <<table, s3, next_uuid, dispatcher, outcome, handler_result>>
    /\ UNCHANGED <<sseVars, cacheVars, authVars, appVars>>

(* A caller of the model function that passes content with the write. *)
write_mcp_function_call(partition_key, given, uuid, content, status) ==
    /\ ~given => (next_uuid <= MaxCalls /\ table[next_uuid] = NoRecord)
    /\ LET r == insert_update_mcp_function_call(Db, partition_key,
                    Kwargs({"name", "content", "status"}
                               \cup IF given THEN {"mcp_function_call_uuid"}
                                    ELSE {},
                           uuid, content, status, None, None))
       IN /\ InstallDb(r.db)
          /\ outcome' = [NoOutcome EXCEPT !.kind = "write",
                                          !.partition_key = partition_key,
                                          !.uuid = r.uuid,
                                          !.raised = r.raised]
    /\ UNCHANGED <<dispatcher, run, handler_result>>
    /\ UNCHANGED <<sseVars, cacheVars, authVars, appVars>>

(* Executions against the default partition and the GraphQL writes of     *)
(* call records under it.                                                  *)
NextDefault ==
    \/ execute_function(Default)
    \/ \E u \in Uuids : main_async_execute_tool_function(Default, u)
    \/ wrapper_obtain(0)
    \/ \E raises \in BOOLEAN : wrapper_finish(0, raises)
    \/ \E given \in BOOLEAN, uuid \in Uuids, content \in {None, Small},
          status \in {"initial", "in_process"} :
           write_mcp_function_call(Default, given, uuid, content, status)

NextRecord ==
    \E given \in BOOLEAN, uuid \in Uuids, content \in {None, Small, Big},
       status \in {"initial", "completed"} :
        write_mcp_function_call(<<"x">>, given, uuid, content, status)

(***************************************************************************)
(* The bearer-token guard: FlexJWTMiddleware (handlers/middleware.py) and  *)
(* the two verifiers.  A token is what its signature and payload are: the  *)
(* key that signed it, the perm flag and the exp claim.                    *)
(* A path and an Authorization header are sequences of tokens.             *)
(***************************************************************************)
Providers == {"local", "cognito", "api_gateway"}

Paths == {<<"/health">>, <<"/auth", "/token">>, <<"/me">>, <<"/x", "/mcp">>}

public_paths == {<<"/health">>, <<"/auth">>}

startswith(s, p) == Len(p) <= Len(s) /\ SubSeq(s, 1, Len(p)) = p

(* the exp claim of a token that carries none *)
NoExp == -1

Tokens == [key : {"local", "cognito", "forged"}, perm : BOOLEAN,
           exp : {NoExp} \cup (0..MaxNow)]

Schemes == {"Bearer", "bearer", "Basic"}

Headers == {None} \cup {<<scheme, " ", token>> : scheme \in Schemes,
                                                token \in Tokens}

lower(word) == IF word = "Bearer" THEN "bearer" ELSE word

HTTPException(status_code) ==
    [raised |-> TRUE, status_code |-> status_code,
     headers |-> <<"WWW-Authenticate", "Bearer">>]

Verified(claims) == [raised |-> FALSE, claims |-> claims]

(* jose's decode gives back the payload of a token the key verifies *)
payload(token) == [perm |-> token.perm, exp |-> token.exp]

verify_local_jwt(token, now) ==
    IF token.key # "local" THEN HTTPException(401)
    ELSE IF ~token.perm /\ (token.exp = NoExp \/ now > token.exp)
         THEN HTTPException(401)
         ELSE Verified(payload(token))

(* The body of the coroutine: what awaiting it would give. *)
verify_cognito_jwt_body(token, now) ==
    IF token.key # "cognito" THEN HTTPException(401)
    ELSE IF token.exp # NoExp /\ now > token.exp THEN HTTPException(401)
         ELSE Verified(payload(token))

(* verify_cognito_jwt is an async def: calling it runs none of its body and *)
(* gives a coroutine object, which raises nothing.                          *)
verify_cognito_jwt(token, now) ==
    Verified([coroutine |-> "verify_cognito_jwt", token |-> token])

NoExchange == None

(* no token minted yet *)
NoTokenRequest == None

InitAuth ==
    /\ auth_provider = "local"
    /\ exchange = NoExchange
    /\ admin_static_token = None
    /\ token_request = NoTokenRequest

(* Config.initialize under each value of the auth_provider setting *)
InitAuthAnyProvider ==
    /\ auth_provider \in Providers
    /\ exchange = NoExchange
    /\ admin_static_token = None
    /\ token_request = NoTokenRequest

JSONResponse(path, authorization, now, status_code) ==
    [path |-> path, authorization |-> authorization, now |-> now,
     handled |-> FALSE, status_code |-> status_code, user |-> None]

call_next(path, authorization, now, user) ==
    [path |-> path, authorization |-> authorization, now |-> now,
     handled |-> TRUE, status_code |-> 200, user |-> user]

dispatch(path, authorization, now) ==
    /\ exchange' =
          IF \E p \in public_paths : startswith(path, p)
          THEN call_next(path, authorization, now, None)
          ELSE IF ~(authorization # None
                    /\ startswith(<<lower(authorization[1]), authorization[2]>>,
                                  <<"bearer", " ">>))
          THEN JSONResponse(path, authorization, now, 401)
          ELSE LET token == authorization[3]
                   mode == auth_provider
                   verdict == IF mode = "cognito"
                              THEN verify_cognito_jwt(token, now)
                              ELSE verify_local_jwt(token, now)
               IN  IF verdict.raised
                   THEN JSONResponse(path, authorization, now,
                                     verdict.status_code)
                   ELSE call_next(path, authorization, now, verdict.claims)
    /\ UNCHANGED <<sseVars, cacheVars, callVars, auth_provider, appVars>>
    /\ UNCHANGED <<admin_static_token, token_request>>

NextAuth ==
    \E path \in Paths, authorization \in Headers, now \in 0..MaxNow :
        dispatch(path, authorization, now)

(***************************************************************************)
(* The build of a view, query by query (config.py:436-450, 500-632).       *)
(*                                                                         *)
(* A module link is the pair of its module_name and class_name; every link *)
(* of a view has both, since _build_module_link is applied to the          *)
(* functions that have both (config.py:434-438).  A module's stored record *)
(* lists, for each class, a setting id, no setting id, or nothing.  The    *)
(* package_name and source of a modules record are left out.               *)
(***************************************************************************)
Modules == {"m1", "m2"}
Classes == {"A", "B"}
ModuleOrder == <<"m1", "m2">>
Unlisted == "unlisted"
NoSetting == "no_setting"
SettingIds == {"s1"}
EmptySetting == <<>>
StoredSetting == <<"k">>

(* what an MCP_MODULE query can answer *)
ModuleAnswers ==
    {[kind |-> "errors"], [kind |-> "raises"], [kind |-> "none"]} \cup
    {[kind |-> "data", classes |-> l] :
        l \in [Classes -> {Unlisted, NoSetting} \cup SettingIds]}

(* what an MCP_SETTING query can answer *)
SettingAnswers == {"errors", "raises", "data"}

NoBuild == [pc |-> "idle"]

(* The addresses requests come from. *)
IPs == {"10.0.0.1", "10.0.0.2"}

Methods == {"GET", "POST"}

InitApp ==
    /\ build = NoBuild
    /\ rpc = None
    /\ request_counts = [client_ip \in IPs |-> <<>>]
    /\ rate = [now |-> 0, admitted |-> [client_ip \in IPs |-> <<>>],
               status_code |-> 0]
    /\ lifespan = [pc |-> "serving"]
    /\ missed = None

(* the keys of modules_classes in insertion order *)
modules_classes(module_links) ==
    SelectSeq(ModuleOrder, LAMBDA m : \E link \in module_links : link[1] = m)

(* modules_classes[module_name] *)
class_names(module_links, module_name) ==
    {link[2] : link \in {l \in module_links : l[1] = module_name}}

(* lines 547-570: the classes of the module that are listed with a setting id *)
class_to_setting_map(module_data, names) ==
    {c \in names : module_data.classes[c] \in SettingIds}

(* lines 585-591: the setting of a record, {} when the response has errors *)
setting_data(answer) == IF answer = "data" THEN StoredSetting ELSE EmptySetting

(* a fallback that drops the class instead of recording it *)
fallback_dropped(modules_info, module_info) == modules_info

(* lines 603-616: modules_info.append(module_info) with "setting": {} *)
fallback(modules_info, module_info) == Append(modules_info, module_info)

(* fetch_mcp_configuration, steps 1 to 3: the function list was read and   *)
(* the initial structure built, with these module links                    *)
build_initial_structure(partition_key, module_links) ==
    /\ build.pc = "idle"
    /\ build' = [pc |-> "module", partition_key |-> partition_key,
                 module_links |-> module_links,
                 todo |-> modules_classes(module_links),
                 pending |-> {}, modules_info |-> <<>>,
                 module_answers |-> [m \in Modules |-> None],
                 setting_answers |-> {}]
    /\ UNCHANGED <<sseVars, cacheVars, callVars, authVars, rpc, edgeVars>>

(* lines 524-570 and 618-621: the MCP_MODULE query of the next module; a   *)
(* response with errors, without data, or an exception skips the module    *)
query_MCP_MODULE(answer) ==
    /\ build.pc = "module"
    /\ build.todo # <<>>
    /\ LET module_name == Head(build.todo)
           map == IF answer.kind = "data"
                  THEN class_to_setting_map(
                          answer, class_names(build.module_links, module_name))
                  ELSE {}
       IN build' = [build EXCEPT
                      !.module_answers[module_name] = answer,
                      !.pending = map,
                      !.pc = IF map = {} THEN "module" ELSE "setting",
                      !.todo = IF map = {} THEN Tail(@) ELSE @]
    /\ UNCHANGED <<sseVars, cacheVars, callVars, authVars, rpc, edgeVars>>

(* lines 573-616: the MCP_SETTING query of one class of the module *)
query_MCP_SETTING(class_name, answer) ==
    /\ build.pc = "setting"
    /\ class_name \in build.pending
    /\ LET module_name == Head(build.todo)
           module_info == [module_name |-> module_name,
                           class_name |-> class_name,
                           setting |-> setting_data(answer)]
           left == build.pending \ {class_name}
       IN build' = [build EXCEPT
                      !.modules_info = IF answer = "raises"
                                       THEN fallback(@, module_info)
                                       ELSE Append(@, module_info),
                      !.setting_answers = @ \cup {<<module_name, class_name, answer>>},
                      !.pending = left,
                      !.pc = IF left = {} THEN "module" ELSE "setting",
                      !.todo = IF left = {} THEN Tail(@) ELSE @]
    /\ UNCHANGED <<sseVars, cacheVars, callVars, authVars, rpc, edgeVars>>

(* lines 444-457: the modules are assigned and the view is cached *)
cache_configuration ==
    /\ build.pc = "module"
    /\ build.todo = <<>>
    /\ mcp_configuration' =
          [mcp_configuration EXCEPT ![build.partition_key] =
              [module_links |-> build.module_links,
               modules |-> build.modules_info]]
    /\ build' = [build EXCEPT !.pc = "cached"]
    /\ UNCHANGED <<upstream, fetcher, response, first_view, settled_view>>
    /\ UNCHANGED <<sseVars, callVars, authVars, rpc, edgeVars>>

NextBuild ==
    \/ \E module_links \in SUBSET (Modules \X Classes) :
          build_initial_structure(<<"x">>, module_links)
    \/ \E answer \in ModuleAnswers : query_MCP_MODULE(answer)
    \/ \E class_name \in Classes, answer \in SettingAnswers :
          query_MCP_SETTING(class_name, answer)
    \/ cache_configuration

(***************************************************************************)
(* Argument validation and the synchronous tools/call pipeline             *)
(* (mcp_utility.py:447-567, 217-337; mcp_server.py:47-77, 185-227,         *)
(* 337-342).                                                               *)
(*                                                                         *)
(* A JSON value carries its Python type: a dict is Obj of a function from  *)
(* its keys, a list is Arr of a sequence, a string is Str.  A schema is a  *)
(* record that has the keys the JSON schema has; its properties are the    *)
(* sequence of the (key, schema) pairs in dict order.  A Python string is  *)
(* the sequence of its pieces.  The arguments are well typed: an object    *)
(* where the schema says object, a list where it says array.               *)
(***************************************************************************)
Obj(f) == [t |-> "obj", v |-> f]
Arr(q) == [t |-> "arr", v |-> q]
Str(x) == [t |-> "str", v |-> x]
Absent == [t |-> "absent"]
EmptyDict == <<>>

(* str(i) of a list index *)
IndexStr(i) == <<"0", "1", "2", "3">>[i + 1]

Ok(data) == [raised |-> FALSE, message |-> <<>>, data |-> data]
Raise(message, data) == [raised |-> TRUE, message |-> message, data |-> data]

MissingRequiredArgument(path) == <<"Missing required argument: ">> \o path

RECURSIVE _validate_nested_structure(_, _, _)
RECURSIVE for_properties(_, _, _, _, _)
RECURSIVE for_items(_, _, _, _)

(* the loop over schema["properties"].items() of lines 464-479 and         *)
(* 506-518, from its i-th pair on: a missing key is set to the default of  *)
(* its schema, or raises when it is required; a key that is there is       *)
(* validated against its schema                                            *)
for_properties(properties, required, data, field_path, i) ==
    IF i > Len(properties) THEN Ok(data)
    ELSE LET nested_key == properties[i][1]
             nested_schema == properties[i][2]
             nested_path == IF field_path # <<>>
                            THEN field_path \o <<".", nested_key>>
                            ELSE <<nested_key>>
         IN IF nested_key \notin DOMAIN data.v
            THEN IF "default" \in DOMAIN nested_schema
                 THEN for_properties(
                          properties, required,
                          Obj((nested_key :> nested_schema.default) @@ data.v),
                          field_path, i + 1)
                 ELSE IF nested_key \in required
                 THEN Raise(MissingRequiredArgument(nested_path), data)
                 ELSE for_properties(properties, required, data, field_path,
                                     i + 1)
            ELSE LET r == _validate_nested_structure(
                              nested_schema, data.v[nested_key], nested_path)
                     data1 == Obj([data.v EXCEPT ![nested_key] = r.data])
                 IN IF r.raised THEN Raise(r.message, data1)
                    ELSE for_properties(properties, required, data1,
                                        field_path, i + 1)

(* the loop over enumerate(data) of lines 484-487, from its i-th item on *)
for_items(items_schema, data, field_path, i) ==
    IF i > Len(data.v) THEN Ok(data)
    ELSE LET item_path == field_path \o <<"[", IndexStr(i - 1), "]">>
             r == _validate_nested_structure(items_schema, data.v[i], item_path)
             data1 == Arr([data.v EXCEPT ![i] = r.data])
         IN IF r.raised THEN Raise(r.message, data1)
            ELSE for_items(items_schema, data1, field_path, i + 1)

(* mcp_utility._validate_nested_structure *)
_validate_nested_structure(schema, data, field_path) ==
    IF /\ "type" \in DOMAIN schema
       /\ schema.type = "object"
       /\ "properties" \in DOMAIN schema
    THEN for_properties(schema.properties,
                        IF "required" \in DOMAIN schema THEN schema.required
                        ELSE {},
                        data, field_path, 1)
    ELSE IF /\ "type" \in DOMAIN schema
            /\ schema.type = "array"
            /\ "items" \in DOMAIN schema
    THEN IF data.t = "arr" THEN for_items(schema.items, data, field_path, 1)
         ELSE Ok(data)
    ELSE Ok(data)

(* mcp_utility._validate_and_set_defaults *)
_validate_and_set_defaults(tool_schema, arguments) ==
    IF \/ "inputSchema" \notin DOMAIN tool_schema
       \/ "properties" \notin DOMAIN tool_schema.inputSchema
       \/ tool_schema.inputSchema.properties = <<>>
    THEN Ok(arguments)
    ELSE for_properties(tool_schema.inputSchema.properties,
                        IF "required" \in DOMAIN tool_schema.inputSchema
                        THEN tool_schema.inputSchema.required ELSE {},
                        arguments, <<>>, 1)

(* The tools of the configuration: a tool without properties, and a tool   *)
(* with a defaulted string, a required string, an object and a list of     *)
(* objects whose properties again have a default and a requirement; the    *)
(* object is optional in one tool and has the default {} in the other.     *)
StringWithDefault == [type |-> "string", default |-> Str("d")]
String == [type |-> "string"]
Inner == [type |-> "object",
          properties |-> <<<<"p", StringWithDefault>>, <<"q", String>>>>,
          required |-> {"q"}]
InnerWithDefault == [type |-> "object",
                     properties |-> <<<<"p", StringWithDefault>>,
                                      <<"q", String>>>>,
                     required |-> {"q"},
                     default |-> Obj(EmptyDict)]
ListOfInner == [type |-> "array", items |-> Inner]

Tool(name, o) ==
    [name |-> name,
     inputSchema |-> [type |-> "object",
                      properties |-> <<<<"a", StringWithDefault>>,
                                       <<"r", String>>,
                                       <<"o", o>>,
                                       <<"l", ListOfInner>>>>,
                      required |-> {"r"}]]

Tools == {[name |-> "plain", inputSchema |-> [type |-> "object"]],
          Tool("optional", Inner), Tool("defaulted", InnerWithDefault)}

(* the arguments of a call: every choice of present keys *)
Opt(key, value) == IF value = Absent THEN EmptyDict ELSE key :> value

InnerValues == {Obj(Opt("p", p) @@ Opt("q", q)) :
                   p \in {Absent, Str("x")}, q \in {Absent, Str("x")}}

ListValues == {Arr(<<>>)} \cup {Arr(<<i>>) : i \in InnerValues}
                  \cup {Arr(<<Obj("q" :> Str("x")), i>>) : i \in InnerValues}

ArgumentValues ==
    {Obj(Opt("a", a) @@ Opt("r", r) @@ Opt("o", o) @@ Opt("l", l)) :
        a \in {Absent, Str("x")}, r \in {Absent, Str("x")},
        o \in {Absent} \cup InnerValues, l \in {Absent} \cup ListValues}

InternalError(msg_id, data) ==
    [jsonrpc |-> "2.0", id |-> msg_id,
     error |-> [code |-> -32603, message |-> <<"Internal error">>,
                data |-> data]]

(* execute_decorator around execute_tool_function for a call without uuid: *)
(* the record is created unless the partition is default, the arguments    *)
(* are validated, the tool function is invoked with them, and the record   *)
(* gets its terminal update; what the call raised and with which           *)
(* arguments the tool function was invoked                                 *)
execute_tool_function(db, partition_key, tool, arguments) ==
    LET created == IF partition_key # Default
                   THEN _insert_update_mcp_function_call(
                            db, partition_key,
                            Kwargs({"name", "mcp_type", "arguments"},
                                   NoUuid, None, "none", None, None))
                   ELSE [db |-> db, errors |-> FALSE, call |-> None]
        mcp_function_call == created.call
        v == _validate_and_set_defaults(tool, arguments)
        uuid == IF mcp_function_call = None THEN NoUuid
                ELSE mcp_function_call.mcpFunctionCallUuid
    IN IF ~v.raised
       THEN [db |-> IF mcp_function_call # None
                    THEN _insert_update_mcp_function_call(
                             created.db, partition_key,
                             Kwargs({"mcp_function_call_uuid", "content",
                                     "status", "time_spent", "updatedBy"},
                                    uuid, model_dump(Result), "completed",
                                    None, Milliseconds)).db
                    ELSE created.db,
             raised |-> FALSE, exception |-> <<>>, called_with |-> v.data]
       ELSE IF mcp_function_call = None
       THEN [db |-> created.db, raised |-> TRUE, exception |-> v.message,
             called_with |-> None]
       ELSE IF "endpointId" \in DOMAIN mcp_function_call
       THEN [db |-> _insert_update_mcp_function_call(
                        created.db, mcp_function_call["endpointId"],
                        Kwargs({"mcp_function_call_uuid", "notes", "status",
                                "updatedBy"},
                               uuid, None, "failed", Traceback, None)).db,
             raised |-> TRUE, exception |-> v.message, called_with |-> None]
       ELSE [db |-> created.db, raised |-> TRUE,
             exception |-> <<"'endpointId'">>, called_with |-> None]

(* the id of a request, a JSON string *)
RequestId == <<"7">>

(* process_mcp_message for tools/call of a synchronous tool of the         *)
(* configuration: call_tool runs execute_tool_function on the event loop.  *)
(* One request per behaviour: a call reads nothing that an earlier call    *)
(* wrote.                                                                  *)
tools_call(partition_key, tool, arguments) ==
    /\ rpc = None
    /\ LET r == execute_tool_function(Db, partition_key, tool, arguments)
       IN /\ InstallDb(r.db)
          /\ rpc' = [op |-> "tools/call", partition_key |-> partition_key,
                     message |-> [id |-> RequestId, method |-> "tools/call"],
                     name |-> tool.name, arguments |-> arguments,
                     called_with |-> r.called_with,
                     status_code |-> 200,
                     cause |-> r.exception,
                     response |->
                        IF r.raised THEN InternalError(RequestId, r.exception)
                        ELSE [jsonrpc |-> "2.0", id |-> RequestId,
                              result |-> <<"content">>]]
    /\ UNCHANGED <<dispatcher, run, outcome, handler_result, build, edgeVars>>
    /\ UNCHANGED <<sseVars, cacheVars, authVars>>

(* the methods process_mcp_message routes (mcp_server.py:153-322) *)
RoutingTable == {"initialize", "tools/list", "tools/call", "resources/list",
                 "resources/templates/list", "resources/read",
                 "prompts/list", "prompts/get"}

(* the methods answered without reading the configuration *)
Static == {"initialize", "resources/templates/list"}

(* the key of params a routed method subscripts *)
Subscripted(method) ==
    IF method \in {"tools/call", "prompts/get"} THEN {"name"}
    ELSE IF method = "resources/read" THEN {"uri"} ELSE {}

(* f"{message.get('method')}" *)
method_text(message) ==
    IF "method" \in DOMAIN message THEN message.method ELSE "None"

(* what the handler of a routed method did: it returned, or raised an      *)
(* exception with this str()                                               *)
Returns == [raised |-> FALSE, cause |-> <<>>]
Raises == [raised |-> TRUE, cause |-> <<"cause">>]

(* str() of the exception raised while the message was handled, empty     *)
(* when none was: the KeyError of a subscript of params, or what the       *)
(* handler raised                                                          *)
raised_in(message, handler) ==
    LET method == method_text(message)
        params == IF "params" \in DOMAIN message THEN message.params
                  ELSE EmptyDict
    IN IF "method" \notin DOMAIN message \/ method \notin RoutingTable
          \/ method \in Static
       THEN <<>>
       ELSE IF \E key \in Subscripted(method) : key \notin DOMAIN params
       THEN <<"'", CHOOSE key \in Subscripted(method) : TRUE, "'">>
       ELSE handler.cause

(* mcp_server.process_mcp_message, the handler of a method that reads the  *)
(* configuration doing `handler`                                           *)
process_mcp_message_routed(message, handler) ==
    LET method == method_text(message)
        msg_id == get(message, "id")
    IN IF "method" \notin DOMAIN message \/ method \notin RoutingTable
       THEN [jsonrpc |-> "2.0", id |-> msg_id,
             error |-> [code |-> -32601,
                        message |-> <<"Method not found: ", method>>]]
       ELSE IF method \in Static
       THEN [jsonrpc |-> "2.0", id |-> msg_id, result |-> <<method>>]
       ELSE IF raised_in(message, handler) # <<>>
       THEN InternalError(msg_id, raised_in(message, handler))
       ELSE [jsonrpc |-> "2.0", id |-> msg_id, result |-> <<method>>]

(* the messages of a client: with and without an id, for static, routed    *)
(* and unknown methods, and without a method                               *)
RpcMessages ==
    {i @@ m @@ p :
        i \in {EmptyDict, "id" :> RequestId},
        m \in {EmptyDict} \cup
              {"method" :> method :
                  method \in {"initialize", "tools/list", "tools/call", "nope"}},
        p \in {EmptyDict, "params" :> [name |-> "t"]}}

(* request.state.user: the claims of a verified token, or what the guard   *)
(* attaches under the cognito provider, a coroutine that was never awaited *)
Claims == {[username |-> "u1"],
           [coroutine |-> "verify_cognito_jwt"]}

(* the error body of the HTTP handlers: getattr(message, "id", None) of a  *)
(* dict is None                                                            *)
handler_error(message, data) == InternalError(None, data)

(* POST /{endpoint_id}/mcp *)
post_mcp_message_rpc(message, handler) ==
    /\ rpc' = [op |-> "post_mcp_message", message |-> message,
               status_code |-> 200,
               cause |-> raised_in(message, handler),
               response |-> process_mcp_message_routed(message, handler)]
    /\ UNCHANGED <<sseVars, cacheVars, callVars, authVars, build, edgeVars>>

(* POST /{endpoint_id}/sse, lines 258-300 *)
post_sse_message_rpc(user, message, handler) ==
    /\ IF "method" \notin DOMAIN message
       THEN /\ rpc' = [op |-> "post_sse_message", message |-> message,
                       status_code |-> 400, cause |-> <<>>,
                       response |-> None]
            /\ UNCHANGED sseVars
       ELSE LET rpc_response == process_mcp_message_routed(message, handler)
            IN IF "username" \notin DOMAIN user
               THEN /\ rpc' = [op |-> "post_sse_message",
                               message |-> message, status_code |-> 200,
                               cause |-> <<"TypeError">>,
                               response |-> handler_error(message,
                                                          <<"TypeError">>)]
                    /\ UNCHANGED sseVars
               ELSE /\ _message_id_seq
                          + Cardinality(_user_clients[user.username])
                          <= MaxMessages + 1
                    /\ \E order \in Perms(_user_clients[user.username]) :
                          InstallMgr(send_to_user(
                              Mgr, order,
                              activity(message, rpc_response)).S)
                    /\ returned' = None
                    /\ UNCHANGED <<_client_id_seq, conn, last_taken>>
                    /\ rpc' = [op |-> "post_sse_message",
                               message |-> message, status_code |-> 200,
                               cause |-> raised_in(message, handler),
                               response |-> rpc_response]
    /\ UNCHANGED <<cacheVars, callVars, authVars, build, edgeVars>>

NextRpc ==
    \/ \E partition_key \in {Default, <<"x">>}, tool \in Tools,
          arguments \in ArgumentValues :
           tools_call(partition_key, tool, arguments)
    \/ \E message \in RpcMessages, handler \in {Returns, Raises} :
           post_mcp_message_rpc(message, handler)
    \/ \E user \in Claims, message \in RpcMessages,
          handler \in {Returns, Raises} :
           post_sse_message_rpc(user, message, handler)

(***************************************************************************)
(* Rate limiting (mcp_app.py:26-94).  One list of admission times per      *)
(* client address, whichever endpoint the request went to.  The handlers   *)
(* call rate_limit_check before anything else that changes state, and a    *)
(* 429 ends the request; what an admitted request does next is the matter  *)
(* of the other sections and leaves request_counts alone.                  *)
(***************************************************************************)
(* the number of entries of a list of admissions inside the window *)
InWindow(times, now, window_seconds) ==
    SelectSeq(times, LAMBDA req_time : now - req_time < window_seconds)

(* rate_limit_check(client_ip, max_requests, window_seconds) called by a   *)
(* request of the given method                                             *)
rate_limit_check(client_ip, method, max_requests, window_seconds) ==
    LET now == rate.now
        kept == InWindow(request_counts[client_ip], now, window_seconds)
    IN IF Len(kept) >= max_requests
       THEN /\ request_counts' = [request_counts EXCEPT ![client_ip] = kept]
            /\ rate' = [rate EXCEPT !.status_code = 429]
       ELSE /\ request_counts' =
                  [request_counts EXCEPT ![client_ip] = Append(kept, now)]
            /\ rate' = [rate EXCEPT
                  !.status_code = 200,
                  !.admitted[client_ip] =
                      Append(@, [method |-> method, time |-> now])]

(* GET /{endpoint_id}/sse, lines 191-194:                                  *)
(* rate_limit_check(client_ip, max_requests=50, window_seconds=60)         *)
get_sse_stream_rate_limit(client_ip) ==
    /\ rate_limit_check(client_ip, "GET", GetQuota, WindowSeconds)
    /\ UNCHANGED <<lifespan, missed>>
    /\ UNCHANGED <<sseVars, cacheVars, callVars, authVars, build, rpc>>

(* POST /{endpoint_id}/sse and POST /{endpoint_id}/mcp, lines 251-253 and  *)
(* 308-310: rate_limit_check(client_ip), 100 requests in 60 seconds        *)
post_message_rate_limit(client_ip) ==
    /\ rate_limit_check(client_ip, "POST", PostQuota, WindowSeconds)
    /\ UNCHANGED <<lifespan, missed>>
    /\ UNCHANGED <<sseVars, cacheVars, callVars, authVars, build, rpc>>

(* time.time() moves on; the admissions that left every window that is    *)
(* still to come are forgotten by the observer                             *)
time_passes ==
    /\ rate.now < MaxClock
    /\ rate' = [rate EXCEPT
          !.now = @ + 1,
          !.admitted = [client_ip \in IPs |->
              SelectSeq(rate.admitted[client_ip],
                        LAMBDA a : (rate.now + 1) - a.time < WindowSeconds)]]
    /\ UNCHANGED <<request_counts, lifespan, missed>>
    /\ UNCHANGED <<sseVars, cacheVars, callVars, authVars, build, rpc>>

(***************************************************************************)
(* The lifespan of the application (mcp_app.py:39-65).  Its shutdown half  *)
(* runs on the event loop, so not while async_execute_tool_function polls  *)
(* there; it cleans the SSE manager up and, under the cognito provider,    *)
(* closes the HTTP client of the key fetches.  The threads of the async    *)
(* tools are started with daemon=False (mcp_utility.py:890-900); the       *)
(* function that joins them, wait_for_background_threads                   *)
(* (mcp_utility.py:49-72), has no caller, so the lifespan has no position  *)
(* "joining".                                                              *)
(***************************************************************************)
lifespan_exit ==
    /\ lifespan.pc = "serving"
    /\ dispatcher.pc = "idle"
    /\ InstallMgr(cleanup_all(Mgr))
    /\ returned' = None
    /\ lifespan' = [pc |-> "stopped"]
    /\ UNCHANGED <<_client_id_seq, conn, last_taken>>
    /\ UNCHANGED <<request_counts, rate, missed>>
    /\ UNCHANGED <<cacheVars, callVars, authVars, build, rpc>>

(* a call of an async tool while the application serves *)
call_async_tool(partition_key) ==
    /\ lifespan.pc = "serving"
    /\ async_execute_tool_function(partition_key)

(* Async tool calls, their threads, and the shutdown of the application. *)
NextShutdown ==
    \/ call_async_tool(<<"x">>)
    \/ \E slot \in Uuids : wrapper_obtain(slot)
    \/ \E slot \in Uuids, raises \in BOOLEAN : wrapper_finish(slot, raises)
    \/ poll_check \/ poll_update \/ poll_timeout
    \/ lifespan_exit

(***************************************************************************)
(* Last-Event-ID as the text it arrives as.  Starlette decodes header      *)
(* values as latin-1, so the superscript digits can be part of one; a      *)
(* Python string is modelled as the sequence of its characters, and None   *)
(* and the empty string, which `not last_event_id` treats alike, as the    *)
(* empty sequence.  "sup2" stands for the character U+00B2, SUPERSCRIPT    *)
(* TWO.                                                                    *)
(***************************************************************************)
Chars == {"0", "1", "2", "sup2", "x"}

RECURSIVE Strings(_)
Strings(n) ==
    IF n = 0 THEN {<<>>}
    ELSE Strings(n - 1) \cup
         {Append(s, c) : s \in {t \in Strings(n - 1) : Len(t) = n - 1},
                         c \in Chars}

HeaderValues == Strings(MaxHeaderLen)

(* the characters of Unicode category Nd *)
DecimalDigits == {"0", "1", "2"}

(* str.isdigit(): every character has the property Numeric_Type=Digit or  *)
(* Decimal, and there is at least one character                            *)
isdigit(s) ==
    /\ s # <<>>
    /\ \A i \in 1..Len(s) : s[i] \in DecimalDigits \cup {"sup2"}

DigitValue(c) == CASE c = "0" -> 0 [] c = "1" -> 1 [] c = "2" -> 2

RECURSIVE Base10(_)
Base10(s) ==
    IF s = <<>> THEN 0
    ELSE 10 * Base10(SubSeq(s, 1, Len(s) - 1)) + DigitValue(s[Len(s)])

(* int(s) on a string that has passed isdigit() *)
int(s) ==
    IF \A i \in 1..Len(s) : s[i] \in DecimalDigits
    THEN [raised |-> FALSE, value |-> Base10(s)]
    ELSE [raised |-> TRUE, exception |-> "ValueError"]

(* SSEManager.get_missed_messages(last_event_id) on the header text *)
get_missed_messages_text(history, last_event_id) ==
    IF last_event_id = <<>> \/ ~isdigit(last_event_id)
    THEN [raised |-> FALSE, value |-> <<>>]
    ELSE LET last_id == int(last_event_id)
         IN IF last_id.raised THEN last_id
            ELSE [raised |-> FALSE,
                  value |-> get_missed_messages(history, last_id.value)]

(* a call of the method, as get_sse_stream makes it at lines 200-201 *)
call_get_missed_messages(last_event_id) ==
    /\ missed' = [last_event_id |-> last_event_id,
                  outcome |-> get_missed_messages_text(_message_history,
                                                       last_event_id)]
    /\ UNCHANGED <<request_counts, rate, lifespan>>
    /\ UNCHANGED <<sseVars, cacheVars, callVars, authVars, build, rpc>>

(* Calls of get_missed_messages on every header value, over the histories *)
(* that broadcasts leave.                                                  *)
NextReplay ==
    \/ broadcast_to_clients(FALSE)
    \/ \E last_event_id \in HeaderValues :
           call_get_missed_messages(last_event_id)

NextRate ==
    \/ \E client_ip \in IPs : get_sse_stream_rate_limit(client_ip)
    \/ \E client_ip \in IPs : post_message_rate_limit(client_ip)
    \/ time_passes

(***************************************************************************)
(* The specifications.                                                    *)
(***************************************************************************)
vars == <<sseVars, cacheVars, callVars, authVars, appVars>>

Init == InitSSE /\ InitCache /\ InitCall /\ InitAuth /\ InitApp

(* Every connection authenticated as the same user: the fanout and replay   *)
(* paths of one user's clients.                                             *)
SpecSSE == Init /\ [][NextSSE({"u1"})]_vars

(* The streams and sends of two users. *)
SpecFanout == Init /\ [][NextFanout(Users)]_vars

(* The messages two users post while their streams are open. *)
SpecPost == Init /\ [][NextPost(Users)]_vars

(* The ends of stream requests.  The event loop runs a writer loop whose    *)
(* request has ended: the loop polls is_disconnected at least every 15      *)
(* seconds and a cancellation is delivered at its next suspension point.    *)
SpecStreamEnd ==
    /\ Init
    /\ [][NextStreamEnd({"u1"})]_vars
    /\ \A c \in ClientIds : WF_vars(sse_event_generator_finally(c))

(* The manager across lifespans. *)
SpecHistory == Init /\ [][NextHistory({"u1"})]_vars

SpecLifespan == Init /\ [][NextLifespan({"u1"})]_vars

(* One fetch at a time, over both forms of partition key and every GraphQL  *)
(* operation.                                                               *)
SpecCache == Init /\ [][NextCache(Parts, {1}, Queries)]_vars

(* Fetches through get_mcp_configuration_with_retry, concurrent with each   *)
(* other and with the mutations and the clearing of the cache.              *)
SpecRetry == Init /\ [][NextRetry]_vars

(* Concurrent fetches of one partition. *)
SpecColdFetch ==
    Init /\ [][NextCache({NoPart}, Fetchers,
                         {insertUpdateMcpFunction, mcpFunctionList})]_vars

(* Tool calls, synchronous and async, against the call-record store. *)
SpecCall == Init /\ [][NextCall]_vars

(* Executions against the default partition. *)
SpecDefault == Init /\ [][NextDefault]_vars

(* Writes of call records with content, at the model layer. *)
SpecRecord == Init /\ [][NextRecord]_vars

(* Builds of a view against every answer of the module and setting        *)
(* queries.                                                                *)
SpecBuild == Init /\ [][NextBuild]_vars

(* JSON-RPC requests: synchronous tool calls with every choice of          *)
(* arguments, and the other methods through both POST endpoints.           *)
SpecRpc == Init /\ [][NextRpc]_vars

(* Requests to the stream and message endpoints from two addresses, as    *)
(* time passes.                                                            *)
SpecRate == Init /\ [][NextRate]_vars

(* Async tool calls and the shutdown of the application. *)
SpecShutdown == Init /\ [][NextShutdown]_vars

(* get_missed_messages on every header value. *)
SpecReplay == Init /\ [][NextReplay]_vars

(* Two users, their streams and their posts. *)
SpecIsolation == Init /\ [][NextIsolation(Users)]_vars

(* The manager's maps under every operation that changes them. *)
SpecManager == Init /\ [][NextManager(Users)]_vars

(* Requests through the guard, under every configured provider. *)
(* the state after construction under either AUTH_PROVIDER setting *)
InitAnyProvider ==
    InitSSE /\ InitCache /\ InitCall /\ InitAuthAnyProvider /\ InitApp

SpecAuth == InitAnyProvider /\ [][NextAuth]_vars

(***************************************************************************)
(* Properties of the SSE manager.                                          *)
(***************************************************************************)
(* the id-carrying messages of a queue, in queue order *)
Enveloped(q) == SelectSeq(q, LAMBDA msg : msg.id # 0)

StrictlyIncreasing(q) == \A i, j \in 1..Len(q) : i < j => q[i].id < q[j].id

(* C1: for every client, the id-carrying messages it takes off its queue    *)
(* appear in strictly increasing id order: the ids it still has to take are *)
(* strictly increasing and all greater than the id it took last.            *)
C1_TakenIdsIncrease ==
    \A c \in ClientIds :
        StrictlyIncreasing(<<[id |-> last_taken[c]]>> \o Enveloped(queue[c]))

(* a client took a replayed message (its metadata event is still queued    *)
(* behind it) and a message sent after registration waits in its queue      *)
C1_Witness ==
    \E c \in ClientIds :
        /\ conn[c].state = "streaming"
        /\ last_taken[c] > 0
        /\ Len(queue[c]) = 2
        /\ queue[c][1] = Metadata
        /\ queue[c][2].id > last_taken[c]

(* C2: when a stream opens with Last-Event-ID = k and k is not older than   *)
(* the oldest id in history, the new client's queue holds every history     *)
(* message with id > k, in increasing order, and none with id <= k.         *)
C2_ReplayComplete ==
    [][\A u \in Users, k \in 0..MaxMessages :
          (/\ get_sse_stream(u, k)
           /\ _message_history # <<>>
           /\ k >= _message_history[1].id)
          => Enveloped(queue'[_client_id_seq]) =
                SelectSeq(_message_history, LAMBDA msg : msg.id > k)]_vars

(* C3: no client queue ever holds more than max_queue_size messages. *)
C3_QueueBounded == \A c \in ClientIds : Len(queue[c]) <= max_queue_size

(* a client whose queue was full when a message was sent to it: the message *)
(* was dropped and the client evicted while its connection is still open    *)
C3_Witness ==
    \E c \in ClientIds :
        /\ conn[c].state = "streaming"
        /\ c \notin _clients
        /\ Len(queue[c]) = max_queue_size
(***************************************************************************)
(* Properties of the configuration cache.                                  *)
(***************************************************************************)
(* C5: after a successful function, module or setting mutation sent to the *)
(* GraphQL endpoint for a partition, whichever form its key has and the    *)
(* bulk load included, the cache holds no entry for that partition.        *)
C5_MutationClearsPartition ==
    [][\A e \in Endpoints, part \in Parts, query \in ConfigurationMutations :
          mcp_core_graphql(e, part, query, TRUE)
          => mcp_configuration'[_get_partition_key(e, part)] = NoView]_vars

Complete(view) == view # NoView /\ view.built_through = 4

(* C6: whatever the interleaving of the fetches of a cold partition, every *)
(* entry of the cache and every view a fetch returns is absent or complete,*)
(* and a build that fails leaves the cache as it was and raises.           *)
C6_NoPartialView ==
    /\ [](\A k \in PartitionKeys :
             mcp_configuration[k] = NoView \/ Complete(mcp_configuration[k]))
    /\ [](response.outcome = "returned" => Complete(response.view))
    /\ [][\A t \in Fetchers :
             fetch_function_list(t, FALSE)
             => /\ mcp_configuration' = mcp_configuration
                /\ response'.outcome = "raised"]_vars

(* a thread is still building a partition it found cold while the view of  *)
(* another build of that partition is installed                            *)
C6_Witness ==
    \E t \in Fetchers :
        /\ fetcher[t].pc \in {"modules", "install"}
        /\ ~fetcher[t].force_refresh
        /\ mcp_configuration[fetcher[t].partition_key] # NoView

(* C7 as stated: after a fetch of p succeeded, a further unforced fetch of *)
(* p with no clear, refresh or mutation in between returns the view that   *)
(* fetch returned and issues no upstream query.                            *)
C7_RepeatedFetchSameView ==
    [][\A t \in Fetchers, k \in PartitionKeys :
          (fetch_mcp_configuration(t, k, FALSE) /\ first_view[k] # NoView)
          => /\ response'.outcome = "returned"
             /\ response'.view = first_view[k]
             /\ response'.queries = 0]_vars

(* C7 amended: the same, provided also that no build of p that was running *)
(* concurrently installed its view in between.                             *)
C7_RepeatedFetchSameViewUnlessRaced ==
    [][\A t \in Fetchers, k \in PartitionKeys :
          (fetch_mcp_configuration(t, k, FALSE) /\ settled_view[k] # NoView)
          => /\ response'.outcome = "returned"
             /\ response'.view = settled_view[k]
             /\ response'.queries = 0]_vars

(* a fetch has just returned, from the cache, the view an earlier fetch of *)
(* the partition returned                                                  *)
C7_Witness ==
    /\ response.outcome = "returned"
    /\ response.repeat
    /\ response.queries = 0
    /\ \E k \in PartitionKeys : settled_view[k] = response.view

(***************************************************************************)
(* Properties of the call records.                                         *)
(***************************************************************************)
(* C4: once completed or failed is stored for a call, no later write       *)
(* stores initial or in_process for it.                                    *)
C4_StatusOnlyMovesForward ==
    [][\A u \in Uuids :
          (table[u] # NoRecord /\ table[u].status \in {"completed", "failed"})
          => table'[u].status \notin {"initial", "in_process"}]_vars

(* C8: once the background handler of a call has returned, a dispatch      *)
(* that carries the call's uuid returns text content equal to what the     *)
(* handler returned.                                                       *)
C8_LaterDispatchReturnsResult ==
    [][\A u \in Uuids :
          (handler_result[u] # None /\ async_execute_tool_function_again(<<"x">>, u))
          => /\ outcome'.kind = "text"
             /\ outcome'.text = handler_result[u]]_vars

(* C9: a write that carries oversize content, creating or updating, ends   *)
(* with the record flagged, without inline content, the blob holding the   *)
(* content, and a read of the record returning exactly that content.       *)
C9_OversizeContentExternalised ==
    [][\A given \in BOOLEAN, uuid \in Uuids, status \in {"initial", "completed"} :
          write_mcp_function_call(<<"x">>, given, uuid, Big, status)
          => LET id == outcome'.uuid
                 db == [table |-> table', s3 |-> s3', next_uuid |-> next_uuid']
             IN /\ table'[id] # NoRecord
                /\ table'[id].content_in_s3
                /\ table'[id].content = None
                /\ s3'[id] \in {Big, json_dumps(Big)}
                /\ get_mcp_function_call_type(db, id).content = Big]_vars

(* C10: an execution on a partition other than default that obtained a     *)
(* record ends with exactly one terminal update: completed with the        *)
(* serialised result and the time spent when the pipeline returned, failed *)
(* with the traceback when it raised, the original exception re-raised.    *)
C10_OneTerminalUpdate ==
    (outcome.kind = "execution" /\ outcome.partition_key # Default
                                /\ outcome.uuid # NoUuid)
    => /\ Len(outcome.updates) = 1
       /\ IF outcome.raised
          THEN /\ outcome.updates[1].status = "failed"
               /\ outcome.updates[1].notes = Traceback
               /\ outcome.exception = "original"
          ELSE /\ outcome.updates[1].status = "completed"
               /\ outcome.updates[1].content = model_dump(Result)
               /\ outcome.updates[1].time_spent # None

(***************************************************************************)
(* Properties of the bearer-token guard.                                   *)
(***************************************************************************)
IsPublic(path) == \E p \in public_paths : startswith(path, p)

CarriesBearer(authorization) ==
    authorization # None /\ lower(authorization[1]) = "bearer"

(* What the configured provider's verification gives for the token. *)
Verification(mode, token, now) ==
    IF mode = "cognito" THEN verify_cognito_jwt_body(token, now)
    ELSE verify_local_jwt(token, now)

(* C11: under every provider, a request to a path that is not public       *)
(* reaches its handler only if it carried a bearer token whose verification *)
(* completed successfully, and then with the verified claims attached;     *)
(* every other such request is answered 401 and reaches no handler.        *)
C11_OnlyVerifiedReachHandler ==
    (exchange # NoExchange /\ ~IsPublic(exchange.path)) =>
        IF /\ CarriesBearer(exchange.authorization)
           /\ ~Verification(auth_provider, exchange.authorization[3],
                            exchange.now).raised
        THEN /\ exchange.handled
             /\ exchange.user = Verification(auth_provider,
                                             exchange.authorization[3],
                                             exchange.now).claims
        ELSE ~exchange.handled /\ exchange.status_code = 401

(***************************************************************************)
(* Properties of the message history.                                      *)
(***************************************************************************)
LastN(s, n) == SubSeq(s, Len(s) - Min(Len(s), n) + 1, Len(s))

(* the envelopes of the ids from..(to - 1), in allocation order *)
Allocated(from, to) == [i \in 1..(to - from) |-> [id |-> from + i - 1]]

InHistory(h, m) == \E j \in 1..Len(h) : h[j] = m

(* C12: every broadcast_message or send_to_client call allocates an id     *)
(* greater than every id allocated before it and appends the stamped       *)
(* envelope to the history before the envelope is on any client queue; the *)
(* history is always, in allocation order, the most recent at most         *)
(* max_history envelopes allocated since the last cleanup_all.             *)
C12_HistoryHoldsRecentAllocations ==
    /\ [](/\ StrictlyIncreasing(_message_history)
          /\ \A j \in 1..Len(_message_history) :
                _message_history[j].id < _message_id_seq)
    /\ [][LET new == Allocated(_message_id_seq, _message_id_seq')
          IN /\ _message_id_seq' >= _message_id_seq
             /\ \/ _message_history' =
                      LastN(_message_history \o new, max_history)
                \/ /\ new = <<>>
                   /\ _clients' = {}
                   /\ _message_history' = <<>>
             /\ \A c \in ClientIds : \A i \in 1..Len(queue'[c]) :
                   queue'[c][i].id >= _message_id_seq =>
                       InHistory(_message_history', queue'[c][i])]_vars

(* The history is full, its oldest envelopes have been dropped, and the    *)
(* newest envelope is on a client queue.                                   *)
C12_Witness ==
    /\ Len(_message_history) = max_history
    /\ _message_history[1].id > 1
    /\ \E c \in _clients :
          /\ queue[c] # <<>>
          /\ queue[c][Len(queue[c])] = _message_history[max_history]

(***************************************************************************)
(* Properties of the send operations, over the calls whose result the      *)
(* caller kept.                                                            *)
(***************************************************************************)
Called(call, op) == call # None /\ call.op = op

(* C13: when send_to_client finds the target's queue full, nothing is      *)
(* enqueued, the target leaves the client map and every user's client set, *)
(* and the call returns false; every other client, every queue and every   *)
(* other membership stays as it was.                                       *)
C13_FullQueueEvictsOnlyTarget ==
    [][(/\ Called(returned', "send_to_client")
        /\ returned'.client_id \in _clients
        /\ QueueFull(queue[returned'.client_id]))
       => LET client_id == returned'.client_id
          IN /\ queue' = queue
             /\ _clients' = _clients \ {client_id}
             /\ \A u \in Users :
                   _user_clients'[u] = _user_clients[u] \ {client_id}
             /\ returned'.ret = FALSE]_vars

(* A send to a client has just found its queue full: the queue still ends  *)
(* with the envelope allocated before the one the call allocated, the      *)
(* client is gone, and another client is still registered.                 *)
C13_Witness ==
    /\ Called(returned, "send_to_client")
    /\ ~returned.ret
    /\ returned.client_id \notin _clients
    /\ Len(queue[returned.client_id]) = max_queue_size
    /\ queue[returned.client_id][max_queue_size].id = _message_id_seq - 2
    /\ \E d \in _clients : d \in _user_clients["u1"] /\ queue[d] # <<>>

(* C14: broadcast_message puts one and the same id-stamped envelope on the *)
(* queue of every registered client whose queue is not full, returns the   *)
(* number of those clients, and leaves every client whose queue was full   *)
(* out of the client map and of all user sets.                             *)
C14_BroadcastReachesEveryOpenQueue ==
    [][Called(returned', "broadcast_message")
       => LET live == {c \in _clients : ~QueueFull(queue[c])}
              message_with_id == [id |-> _message_id_seq]
          IN /\ \A c \in live : queue'[c] = Append(queue[c], message_with_id)
             /\ \A c \in ClientIds \ live : queue'[c] = queue[c]
             /\ returned'.ret = Cardinality(live)
             /\ \A c \in _clients \ live :
                   /\ c \notin _clients'
                   /\ \A u \in Users : c \notin _user_clients'[u]]_vars

(* A broadcast has just reached one client and found the queue of another  *)
(* full.                                                                   *)
C14_Witness ==
    /\ Called(returned, "broadcast_message")
    /\ returned.ret = 1
    /\ \E c \in _clients :
          queue[c] # <<>> /\ queue[c][Len(queue[c])].id = _message_id_seq - 1
    /\ \E c \in ClientIds \ _clients :
          /\ conn[c].state = "streaming"
          /\ Len(queue[c]) = max_queue_size
          /\ queue[c][max_queue_size].id = _message_id_seq - 2

(* C15: send_to_user(u, m) returns true exactly when m was enqueued on at  *)
(* least one client that was in u's client set when the snapshot was       *)
(* taken; it enqueues on no client of another user, and with no client of  *)
(* u it returns false and enqueues nothing.                                *)
C15_SendToUserReachesOnlyThatUser ==
    [][Called(returned', "send_to_user")
       => LET client_ids == _user_clients[returned'.username]
              enqueued == {c \in ClientIds :
                              /\ Len(queue'[c]) = Len(queue[c]) + 1
                              /\ queue'[c][Len(queue'[c])].id >= _message_id_seq}
          IN /\ \A c \in ClientIds \ enqueued : queue'[c] = queue[c]
             /\ enqueued \subseteq client_ids
             /\ returned'.ret = (enqueued # {})
             /\ client_ids = {} => (~returned'.ret /\ queue' = queue)]_vars

(* A send to u1 has just been delivered to a client of u1 while a client of *)
(* u2 is registered.                                                        *)
C15_Witness ==
    /\ Called(returned, "send_to_user")
    /\ returned.username = "u1"
    /\ returned.ret
    /\ \E c \in _user_clients["u1"] :
          queue[c] # <<>> /\ queue[c][Len(queue[c])].id = _message_id_seq - 1
    /\ \E d \in _user_clients["u2"] :
          queue[d] # <<>> /\ queue[d][Len(queue[d])].id < _message_id_seq - 1

(***************************************************************************)
(* Properties of the message endpoints.                                    *)
(***************************************************************************)
(* q grew from p by one activity envelope for the message and the body *)
GotActivity(p, q, message, body, first_id) ==
    /\ Len(q) = Len(p) + 1
    /\ SubSeq(q, 1, Len(p)) = p
    /\ q[Len(q)].id >= first_id
    /\ q[Len(q)] = [id |-> q[Len(q)].id, type |-> "mcp_activity",
                    method |-> message.method, request |-> message,
                    response |-> body]

Posted(call, op) == Called(call, op) /\ call.status_code = 200

(* C16 as stated: for each message with a method posted to the stream      *)
(* endpoint by u, every client registered for u gets exactly one           *)
(* mcp_activity envelope with the method and the response, no client of    *)
(* another user gets one, and the HTTP response is the JSON-RPC response;  *)
(* a message posted to the plain endpoint enqueues nothing.                *)
C16_PostReachesEveryClientOfUser ==
    [][/\ Posted(returned', "post_sse_message")
          => LET message == returned'.message
                 client_ids == _user_clients[returned'.username]
             IN /\ \A c \in client_ids :
                      GotActivity(queue[c], queue'[c], message,
                                  returned'.body, _message_id_seq)
                /\ \A c \in ClientIds \ client_ids : queue'[c] = queue[c]
                /\ returned'.body = process_mcp_message(message)
       /\ Posted(returned', "post_mcp_message")
          => /\ queue' = queue
             /\ returned'.body = process_mcp_message(returned'.message)]_vars

(* C16, amended: the envelope goes to every client of u whose queue is not *)
(* full; a client of u whose queue is full gets nothing and is evicted.    *)
C16_PostReachesEveryOpenClientOfUser ==
    [][/\ Posted(returned', "post_sse_message")
          => LET message == returned'.message
                 client_ids == _user_clients[returned'.username]
                 open == {c \in client_ids : ~QueueFull(queue[c])}
             IN /\ \A c \in open :
                      GotActivity(queue[c], queue'[c], message,
                                  returned'.body, _message_id_seq)
                /\ \A c \in ClientIds \ open : queue'[c] = queue[c]
                /\ \A c \in client_ids \ open :
                      /\ c \notin _clients'
                      /\ \A u \in Users : c \notin _user_clients'[u]
                /\ returned'.body = process_mcp_message(message)
       /\ Posted(returned', "post_mcp_message")
          => /\ queue' = queue
             /\ returned'.body = process_mcp_message(returned'.message)]_vars

(* A message posted by u1 has just been fanned out to a client of u1 while *)
(* a client of u2 is registered.                                           *)
C16_Witness ==
    /\ Posted(returned, "post_sse_message")
    /\ returned.username = "u1"
    /\ \E c \in _user_clients["u1"] :
          /\ queue[c] # <<>>
          /\ queue[c][Len(queue[c])].id = _message_id_seq - 1
          /\ queue[c][Len(queue[c])].response = returned.body
    /\ \E d \in _user_clients["u2"] :
          queue[d] # <<>> /\ queue[d][Len(queue[d])].id < _message_id_seq - 1

(***************************************************************************)
(* Properties of the end of a stream.                                      *)
(***************************************************************************)
RequestEnded(c) == conn[c].state \in {"disconnected", "abandoned"}

Removed(c) == c \notin _clients /\ \A u \in Users : c \notin _user_clients[u]

(* C17: every client registered by a stream open is eventually removed     *)
(* from the client map and from its user's client set once its request has *)
(* ended, however the writer loop exits and also when the request ends     *)
(* before the writer loop has started.                                     *)
C17_EndedStreamIsRemoved ==
    \A c \in ClientIds : RequestEnded(c) ~> Removed(c)

(***************************************************************************)
(* Properties of the async dispatcher.                                     *)
(***************************************************************************)
(* C18: a new async dispatch returns after a bounded number of polls of    *)
(* the record it created: text content as soon as a poll observes          *)
(* completed, the embedded-resource handle with the notes as soon as a     *)
(* poll observes failed, the handle with the status observed last when the *)
(* window ends; a poll that observes initial writes in_process.            *)
C18_NewDispatchReturnsWithinWindow ==
    [][/\ poll_check
          => LET observed == table[dispatcher.uuid]
             IN /\ observed.status = "completed"
                   => outcome'.kind = "text" /\ dispatcher'.pc = "idle"
                /\ observed.status = "failed"
                   => /\ outcome'.kind = "resource"
                      /\ outcome'.uuid = dispatcher.uuid
                      /\ outcome'.status = "failed"
                      /\ outcome'.notes = observed.notes
                      /\ dispatcher'.pc = "idle"
                /\ observed.status = "initial"
                   => dispatcher'.pc = "poll_update"
       /\ poll_update => table'[dispatcher.uuid].status = "in_process"
       /\ poll_timeout
          => /\ outcome'.kind = "resource"
             /\ outcome'.uuid = dispatcher.uuid
             /\ outcome'.status = dispatcher.status
             /\ dispatcher'.pc = "idle"
       /\ dispatcher.pc # "idle" => dispatcher.polls <= MaxPolls]_vars

(* C19: a dispatch whose arguments name an existing record creates no      *)
(* record, starts no execution and writes nothing: it returns text content *)
(* holding the record's content when the status is completed, and          *)
(* otherwise the embedded resource holding the uuid, the status and the    *)
(* notes.                                                                  *)
C19_DispatchOfKnownCallOnlyReads ==
    [][\A u \in Uuids :
          (/\ _check_existing_function_call(Db, <<"x">>, u).found
           /\ async_execute_tool_function_again(<<"x">>, u))
          => LET mcp_function_call ==
                     _check_existing_function_call(Db, <<"x">>, u).call
             IN /\ UNCHANGED <<table, s3, next_uuid, run, dispatcher>>
                /\ IF mcp_function_call.status = "completed"
                   THEN /\ outcome'.kind = "text"
                        /\ outcome'.text = mcp_function_call.content
                   ELSE /\ outcome'.kind = "resource"
                        /\ outcome'.uuid = u
                        /\ outcome'.status = mcp_function_call.status
                        /\ outcome'.notes = mcp_function_call.notes]_vars

(***************************************************************************)
(* Properties of the retrying fetch.                                       *)
(***************************************************************************)
(* C20: get_mcp_configuration_with_retry makes at most two fetch attempts  *)
(* for a partition: the first unforced and, only if the first raised, a    *)
(* second with force_refresh after clearing that partition's cache entry;  *)
(* it returns the first view obtained and otherwise raises the second      *)
(* attempt's error.                                                        *)
C20_AtMostOneForcedRetry ==
    [][\A t \in Fetchers :
          /\ get_mcp_configuration_with_retry(t, <<"x">>)
             => IF mcp_configuration[<<"x">>] # NoView
                THEN /\ response'.outcome = "returned"
                     /\ response'.view = mcp_configuration[<<"x">>]
                     /\ fetcher'[t] = Idle
                ELSE /\ fetcher'[t].pc = "function_list"
                     /\ fetcher'[t].attempt = 0
                     /\ ~fetcher'[t].force_refresh
          /\ fetch_function_list(t, FALSE)
             => IF fetcher[t].attempt = 0
                THEN /\ mcp_configuration'[fetcher[t].partition_key] = NoView
                     /\ fetcher'[t].pc = "function_list"
                     /\ fetcher'[t].partition_key = fetcher[t].partition_key
                     /\ fetcher'[t].attempt = 1
                     /\ fetcher'[t].force_refresh
                     /\ response'.outcome # "raised"
                ELSE /\ fetcher'[t] = Idle
                     /\ response'.outcome = "raised"
                     /\ response'.attempt = 1
          /\ fetch_install(t)
             => /\ fetcher'[t] = Idle
                /\ response'.outcome = "returned"
                /\ response'.view = fetcher[t].view
          /\ fetcher[t].pc # "idle"
             => /\ fetcher[t].attempt \in {0, 1}
                /\ fetcher[t].force_refresh <=> (fetcher[t].attempt = 1)]_vars

(* The second attempt of a call has just returned the view it built. *)
C20_Witness ==
    /\ response.outcome = "returned"
    /\ response.attempt = 1
    /\ response.view = mcp_configuration[<<"x">>]

(***************************************************************************)
(* Properties of the build of a view.                                      *)
(***************************************************************************)
(* the modules records of a view, as a set *)
Records(view) == {view.modules[j] : j \in 1..Len(view.modules)}

(* C21: in every installed view each module link has at least one modules  *)
(* record with its module_name and class_name, whatever the module and     *)
(* setting queries answered.                                               *)
C21_EveryLinkHasModuleRecord ==
    \A partition_key \in PartitionKeys :
        LET view == mcp_configuration[partition_key]
        IN view # NoView =>
              \A link \in view.module_links :
                 \E module \in Records(view) :
                    /\ module.module_name = link[1]
                    /\ module.class_name = link[2]

(* C22: in the view a build installs, a class whose setting query answered *)
(* with errors or raised has a record with an empty setting, a class whose *)
(* setting query answered has a record with the stored setting, and a      *)
(* module whose query answered with errors or raised has no record; the    *)
(* records of the other modules are all there.                             *)
C22_QueryErrorsDegradeTheView ==
    [][cache_configuration =>
         LET view == mcp_configuration'[build.partition_key]
         IN /\ \A m \in Modules :
                  (/\ build.module_answers[m] # None
                   /\ build.module_answers[m].kind \in {"errors", "raises"})
                  => \A module \in Records(view) : module.module_name # m
            /\ \A q \in build.setting_answers :
                  [module_name |-> q[1], class_name |-> q[2],
                   setting |-> IF q[3] = "data" THEN StoredSetting
                               ELSE EmptySetting] \in Records(view)
            /\ \A module \in Records(view) :
                  \E q \in build.setting_answers :
                     q[1] = module.module_name /\ q[2] = module.class_name]_vars

C22_Witness ==
    /\ build.pc = "cached"
    /\ build.module_answers["m1"] # None
    /\ build.module_answers["m1"].kind = "errors"
    /\ <<"m2", "A", "raises">> \in build.setting_answers
    /\ <<"m2", "B", "data">> \in build.setting_answers
    /\ Len(mcp_configuration[build.partition_key].modules) = 2

(***************************************************************************)
(* Properties of argument validation.                                      *)
(***************************************************************************)
ToolNamed(name) == CHOOSE tool \in Tools : tool.name = name

(* the value has everything the default has *)
Extends(value, default) ==
    /\ value.t = default.t
    /\ IF default.t = "obj"
       THEN \A k \in DOMAIN default.v :
               k \in DOMAIN value.v /\ value.v[k] = default.v[k]
       ELSE value = default

RECURSIVE Filled(_, _, _)
(* every property of the schema that declares a default and whose key the  *)
(* argument object `before` lacked is in `after` with the default, at      *)
(* every depth of `after`                                                  *)
Filled(schema, before, after) ==
    IF /\ "properties" \in DOMAIN schema
       /\ after.t = "obj"
    THEN \A i \in 1..Len(schema.properties) :
            LET k == schema.properties[i][1]
                s == schema.properties[i][2]
                b == IF before.t = "obj" /\ k \in DOMAIN before.v
                     THEN before.v[k] ELSE Absent
            IN /\ (b.t = "absent" /\ "default" \in DOMAIN s)
                  => (k \in DOMAIN after.v /\ Extends(after.v[k], s.default))
               /\ k \in DOMAIN after.v => Filled(s, b, after.v[k])
    ELSE IF "items" \in DOMAIN schema /\ after.t = "arr"
    THEN \A i \in 1..Len(after.v) :
            Filled(schema.items,
                   IF before.t = "arr" /\ i <= Len(before.v)
                   THEN before.v[i] ELSE Absent,
                   after.v[i])
    ELSE TRUE

(* C23: when validation succeeded, the arguments the tool function is      *)
(* invoked with hold, at every depth, the default of every property whose  *)
(* key the call left out, also inside an object that was itself filled in  *)
(* from a default and inside the items of a list.                          *)
C23_DefaultsFilledAtEveryDepth ==
    (rpc # None /\ rpc.op = "tools/call" /\ rpc.called_with # None)
    => Filled(ToolNamed(rpc.name).inputSchema, rpc.arguments, rpc.called_with)

RECURSIVE Omitted(_, _, _)
(* the paths of the properties that are required, have no default and are  *)
(* missing from their argument object                                      *)
Omitted(schema, data, path) ==
    IF "properties" \in DOMAIN schema /\ data.t = "obj"
    THEN UNION {LET k == schema.properties[i][1]
                    s == schema.properties[i][2]
                    child == IF path = <<>> THEN <<k>> ELSE path \o <<".", k>>
                IN IF k \in DOMAIN data.v THEN Omitted(s, data.v[k], child)
                   ELSE IF k \in schema.required /\ "default" \notin DOMAIN s
                   THEN {child} ELSE {} :
                i \in 1..Len(schema.properties)}
    ELSE IF "items" \in DOMAIN schema /\ data.t = "arr"
    THEN UNION {Omitted(schema.items, data.v[i],
                        path \o <<"[", IndexStr(i - 1), "]">>) :
                i \in 1..Len(data.v)}
    ELSE {}

(* C24: a tool call that leaves out a required property without default,   *)
(* at any depth of the arguments it gives, never invokes the tool function *)
(* and is answered with error -32603 whose data contains 'Missing required *)
(* argument: ' and the path of such a property.                            *)
C24_MissingRequiredArgumentIsReported ==
    (rpc # None /\ rpc.op = "tools/call")
    => LET omitted == Omitted(ToolNamed(rpc.name).inputSchema, rpc.arguments,
                              <<>>)
       IN omitted # {} =>
             /\ rpc.called_with = None
             /\ "error" \in DOMAIN rpc.response
             /\ rpc.response.error.code = -32603
             /\ \E path \in omitted :
                   IsSubstring(MissingRequiredArgument(path),
                               rpc.response.error.data)

(***************************************************************************)
(* Properties of the JSON-RPC layer.                                       *)
(***************************************************************************)
(* C25: every message the request processor handled got one response that  *)
(* carries the id of the request and exactly one of result and error:      *)
(* -32601 with 'Method not found: X' for a method outside the routing      *)
(* table, -32603 with the stringified cause when the handling of a routed  *)
(* method raised, in the processor or in the HTTP handler after it.        *)
C25_OneResponseWithTheRequestId ==
    (rpc # None /\ rpc.status_code = 200)
    => LET message == rpc.message
           body == rpc.response
           routed == "method" \in DOMAIN message
                     /\ message.method \in RoutingTable
       IN /\ body.id = get(message, "id")
          /\ ("result" \in DOMAIN body) # ("error" \in DOMAIN body)
          /\ (~routed /\ rpc.cause = <<>>) =>
                /\ "error" \in DOMAIN body
                /\ body.error.code = -32601
                /\ body.error.message =
                      <<"Method not found: ", method_text(message)>>
          /\ (routed /\ "error" \in DOMAIN body) =>
                /\ body.error.code = -32603
                /\ body.error.data # <<>>
          /\ rpc.cause # <<>> =>
                /\ "error" \in DOMAIN body
                /\ body.error.code = -32603
                /\ body.error.data = rpc.cause

(* C26: an execution against the partition key "default" creates no call   *)
(* record, obtains none and updates none, whatever call uuid it is given.  *)
C26_DefaultPartitionTouchesNoRecord ==
    [][\A slot \in Slots :
          (/\ run[slot].pc # "idle"
           /\ run[slot].partition_key = Default
           /\ run'[slot] # run[slot])
          => /\ UNCHANGED <<table, s3, next_uuid>>
             /\ run'[slot].pc = "handler" => run'[slot].record = NoUuid]_vars

(* the admitted requests of an address and method inside the window *)
Admitted(r, client_ip, method) ==
    Len(SelectSeq(r.admitted[client_ip],
                  LAMBDA a : a.method = method
                             /\ r.now - a.time < WindowSeconds))

Quota(method) == IF method = "GET" THEN GetQuota ELSE PostQuota

Request(client_ip, method) ==
    IF method = "GET" THEN get_sse_stream_rate_limit(client_ip)
    ELSE post_message_rate_limit(client_ip)

(* C27: per address and window no more requests of a method are admitted   *)
(* than its quota; a request over its quota is answered 429 and is not     *)
(* counted; and a request is judged by the admitted requests of its own    *)
(* method alone, so that one under its quota is admitted.                  *)
C27_QuotasPerAddressAndMethod ==
    [][\A client_ip \in IPs, method \in Methods :
          Request(client_ip, method) =>
             /\ Admitted(rate', client_ip, method) <= Quota(method)
             /\ Admitted(rate, client_ip, method) >= Quota(method)
                   => /\ rate'.status_code = 429
                      /\ rate'.admitted = rate.admitted
                      /\ Len(request_counts'[client_ip])
                            <= Len(request_counts[client_ip])
             /\ Admitted(rate, client_ip, method) < Quota(method)
                   => rate'.status_code = 200]_vars

(* C28: the shutdown of the application completes only after every         *)
(* background tool thread that is still running has been waited for, and   *)
(* a thread that is running after the shutdown is stopped by nothing but   *)
(* its own return.                                                         *)
C28_ShutdownWaitsForBackgroundTasks ==
    [][/\ (lifespan.pc # "stopped" /\ lifespan'.pc = "stopped")
          => \A u \in Uuids : run[u].pc # "idle" => lifespan.pc = "joining"
       /\ \A u \in Uuids :
             (lifespan.pc = "stopped" /\ run[u].pc # "idle"
              /\ run'[u].pc = "idle")
             => \E raises \in BOOLEAN : wrapper_finish(u, raises)]_vars

(* a string of decimal digits, and the number it writes *)
IsDecimalString(s) ==
    s # <<>> /\ \A i \in 1..Len(s) : s[i] \in {"0", "1", "2"}

(* C29: get_missed_messages returns the history entries with id > k, in    *)
(* history order, when the header is a string of decimal digits writing k; *)
(* it returns the empty list when the header is absent or is not a string  *)
(* of decimal digits; and it leaves the history as it was.                 *)
C29_MissedMessagesOfAHeader ==
    [][\A last_event_id \in HeaderValues :
          call_get_missed_messages(last_event_id) =>
             /\ _message_history' = _message_history
             /\ ~missed'.outcome.raised
             /\ missed'.outcome.value =
                  IF IsDecimalString(last_event_id)
                  THEN SelectSeq(_message_history,
                          LAMBDA msg : msg.id > Base10(last_event_id))
                  ELSE <<>>]_vars

(* C30: whatever is on the stream of a client of user u, placed there by   *)
(* a live send or by the replay of the request that opened the stream, is  *)
(* an envelope of u: no activity envelope of another user's request.       *)
C30_NoEnvelopeOfAnotherUser ==
    \A c \in ClientIds :
       conn[c].state \in {"streaming", "blocked"} =>
          \A i \in 1..Len(queue[c]) :
             "request" \in DOMAIN queue[c][i] =>
                queue[c][i].request.params.secret = conn[c].username

(* C31: a stream request with a Last-Event-ID completes, whatever the       *)
(* number of history messages newer than that id: no handler stays          *)
(* suspended in a put on the queue of the client it has just created.       *)
C31_StreamOpeningCompletes ==
    \A c \in ClientIds : conn[c].state # "blocked"

(***************************************************************************)
(* Further properties of the configuration cache.                          *)
(***************************************************************************)
(* C32: once the mutations of a partition and every build in flight have   *)
(* completed, a fetch of the partition returns a view of the stored        *)
(* configuration as the last mutation left it, also when a build that had  *)
(* read before a mutation finished after the mutation's cache clear.       *)
C32_NoViewOlderThanTheLastMutation ==
    [][\A t \in Fetchers, k \in PartitionKeys :
          (/\ \A s \in Fetchers : fetcher[s].pc = "idle"
           /\ fetch_mcp_configuration(t, k, FALSE)
           /\ response'.outcome = "returned")
          => response'.view.functions = <<upstream[k]>>]_vars

(***************************************************************************)
(* Further properties of the SSE manager.                                  *)
(***************************************************************************)
(* C33: one send_to_user call for a user with live clients allocates one   *)
(* message id and appends one entry to the history, however many clients   *)
(* the user has.                                                           *)
C33_OneIdPerSendToUser ==
    [][\A u \in Users :
          (_user_clients[u] # {} /\ app_send_to_user(u, TRUE))
          => /\ _message_id_seq' = _message_id_seq + 1
             /\ _message_history' =
                   history_append(_message_history, [id |-> _message_id_seq])]_vars

(* C34: a message sent with send_to_user while the user has no live client *)
(* is given the next id and is in the history afterwards, where the replay *)
(* of the user's next stream request finds it.                             *)
C34_SendToAbsentUserIsKept ==
    [][\A u \in Users :
          (_user_clients[u] = {} /\ app_send_to_user(u, TRUE))
          => /\ _message_id_seq' = _message_id_seq + 1
             /\ \E i \in 1..Len(_message_history') :
                   _message_history'[i].id = _message_id_seq
             /\ get_missed_messages(_message_history', _message_id_seq - 1)
                   # <<>>]_vars

(* C35: a GraphQL request that is a query, a mutation whose result has     *)
(* errors, or a mutation on call records leaves the cache entry of every   *)
(* partition as it was.                                                    *)
C35_OtherRequestsLeaveTheCache ==
    [][\A e \in Endpoints, part \in Parts, query \in Queries, ok \in BOOLEAN :
          (/\ mcp_core_graphql(e, part, query, ok)
           /\ \/ query = mcpFunctionList
              \/ ~ok
              \/ query \in CallRecordMutations)
          => mcp_configuration' = mcp_configuration]_vars

(* C36: a fetch or forced refresh of a partition that fails leaves the     *)
(* cache as it was, the view installed for the partition included; and no  *)
(* step of a fetch or refresh of a partition, and no clear of a single     *)
(* partition, changes the cache entry of another partition.                *)
C36_FailuresAndOtherPartitions ==
    [][/\ \A t \in Fetchers :
             fetch_function_list(t, FALSE)
             => /\ mcp_configuration' = mcp_configuration
                /\ response'.outcome = "raised"
       /\ \A t \in Fetchers, k \in PartitionKeys, force_refresh \in BOOLEAN :
             fetch_mcp_configuration(t, k, force_refresh)
             => mcp_configuration' = mcp_configuration
       /\ \A t \in Fetchers :
             (fetcher[t].pc # "idle" /\ fetcher'[t] # fetcher[t])
             => \A j \in PartitionKeys \ {fetcher[t].partition_key} :
                   mcp_configuration'[j] = mcp_configuration[j]
       /\ \A e \in Endpoints, part \in Parts :
             clear_endpoint_cache(e, part)
             => \A j \in PartitionKeys \ {_get_partition_key(e, part)} :
                   mcp_configuration'[j] = mcp_configuration[j]]_vars

(* a forced refresh has just failed while both partitions have a view *)
(* installed                                                          *)
C36_Witness ==
    /\ response.outcome = "raised"
    /\ \A k \in PartitionKeys : mcp_configuration[k] # NoView

(* C37: in every state of the manager the client-id sets of the users      *)
(* cover exactly the keys of the client map, every client id is in the set *)
(* of exactly one user, and no user is a key with an empty set.            *)
C37_UserMapMatchesClientMap ==
    /\ UNION {_user_clients[u] : u \in _user_keys} = _clients
    /\ \A c \in _clients :
          Cardinality({u \in _user_keys : c \in _user_clients[u]}) = 1
    /\ \A u \in _user_keys : _user_clients[u] # {}

(* every client id has been handed out, one client is registered, and the  *)
(* user of the other has lost its key                                      *)
C37_Witness ==
    /\ _client_id_seq = MaxClients + 1
    /\ Cardinality(_clients) = 1
    /\ Cardinality(_user_keys) = 1

(***************************************************************************)
(* Synchronous executions that carry a call uuid (main.py, lines 144-165,  *)
(* into execute_decorator) on partition x, beside the GraphQL writes of    *)
(* the call records of x and of the default partition.  The uuid passed is *)
(* one that the uuid generator has returned or that a record was stored    *)
(* under: uuid4 does not return a uuid that is already in a caller's hands.*)
(* A write names a uuid that is free or that its own partition holds.      *)
(***************************************************************************)
NextEvent ==
    \/ \E u \in Uuids :
           /\ u < next_uuid \/ table[u] # NoRecord
           /\ main_async_execute_tool_function(<<"x">>, u)
    \/ wrapper_obtain(0)
    \/ \E raises \in BOOLEAN : wrapper_finish(0, raises)
    \/ \E given \in BOOLEAN, uuid \in Uuids, content \in {None, Small},
          status \in {"initial", "in_process"}, partition_key \in {<<"x">>, Default} :
           /\ (given /\ table[uuid] # NoRecord)
                  => table[uuid].partition_key = partition_key
           /\ write_mcp_function_call(partition_key, given, uuid, content, status)

SpecEvent == Init /\ [][NextEvent]_vars

(* C38: a synchronous execution invoked with a call uuid creates no record *)
(* (the uuid counter and the set of stored records stay as they are while  *)
(* it obtains its record), works on the record with the uuid it was given, *)
(* and when it ends its outcome names that record, with the completed      *)
(* update written to it when the handler returned.                         *)
C38_OutcomeOnTheGivenRecord ==
    [][(run[0].pc # "idle" /\ run[0].uuid_kwarg # NoUuid /\ run'[0] # run[0])
       => /\ run[0].pc = "obtain"
             => /\ next_uuid' = next_uuid
                /\ \A u \in Uuids : (table'[u] = NoRecord) <=> (table[u] = NoRecord)
                /\ run'[0].record = run[0].uuid_kwarg
          /\ run[0].pc = "handler"
             => /\ outcome'.uuid = run[0].uuid_kwarg
                /\ ~outcome'.raised => Len(outcome'.updates) = 1]_vars

(***************************************************************************)
(* The token-mint endpoint of the local provider (handlers/auth_router.py, *)
(* jwt_local.py) in front of the guard.                                    *)
(***************************************************************************)
(* Config.access_token_exp, in ticks of the model's clock *)
access_token_exp == 1

admin_username == "admin"

admin_password == "admin123"

Usernames == {"admin", "alice", "bob"}

Passwords == {"admin123", "pw", "bad"}

(* Config._USERS, the local user file: username -> the password its hash   *)
(* verifies                                                                *)
_USERS == [alice |-> "pw"]

(* An ADMIN_STATIC_TOKEN setting is any text: one that the secret does not *)
(* verify, or a token signed with the secret that an operator pasted.      *)
StaticTokens == {[key |-> "forged", perm |-> FALSE, exp |-> NoExp],
                 [key |-> "local", perm |-> TRUE, exp |-> NoExp]}

_expiry(now) == now + access_token_exp

(* jwt.encode with Config.jwt_secret_key: perm when forever, exp otherwise *)
create_local_jwt(forever, now) ==
    IF forever THEN [key |-> "local", perm |-> TRUE, exp |-> NoExp]
    ELSE [key |-> "local", perm |-> FALSE, exp |-> _expiry(now)]

(* lru_cache keeps the first return; under one configuration every call    *)
(* returns the same token                                                  *)
get_or_create_admin_token(static, now) ==
    IF static # None THEN static ELSE create_local_jwt(TRUE, now)

authenticate(username, password) ==
    username \in DOMAIN _USERS /\ _USERS[username] = password

get_local_token(static, username, password, now) ==
    IF username = admin_username /\ password = admin_password
    THEN [raised |-> FALSE,
          access_token |-> get_or_create_admin_token(static, now)]
    ELSE IF ~authenticate(username, password)
         THEN [raised |-> TRUE, access_token |-> None]
         ELSE [raised |-> FALSE, access_token |-> create_local_jwt(FALSE, now)]

(* POST /auth/token *)
login(username, password, now) ==
    /\ auth_provider # "cognito"
    /\ token_request' =
           [username |-> username, password |-> password, now |-> now,
            response |-> get_local_token(admin_static_token, username,
                                         password, now)]
    /\ UNCHANGED <<sseVars, cacheVars, callVars, appVars>>
    /\ UNCHANGED <<auth_provider, exchange, admin_static_token>>

(* Config.initialize in local mode, with or without ADMIN_STATIC_TOKEN *)
InitMint ==
    /\ auth_provider = "local"
    /\ exchange = NoExchange
    /\ admin_static_token \in {None} \cup StaticTokens
    /\ token_request = NoTokenRequest

(* the tokens that carry a signature of Config.jwt_secret_key *)
SignedTokens == {token \in Tokens : token.key = "local"}

NextMint ==
    \/ \E username \in Usernames, password \in Passwords, now \in 0..MaxNow :
           login(username, password, now)
    \/ \E path \in Paths, token \in SignedTokens, now \in 0..MaxNow :
           dispatch(path, <<"Bearer", " ", token>>, now)
    \/ \E path \in Paths, now \in 0..MaxNow :
           /\ token_request # NoTokenRequest
           /\ ~token_request.response.raised
           /\ dispatch(path, <<"Bearer", " ", token_request.response.access_token>>,
                       now)

(* the state after construction in local mode *)
InitLocalMode ==
    InitSSE /\ InitCache /\ InitCall /\ InitMint /\ InitApp

SpecMint == InitLocalMode /\ [][NextMint]_vars

(* the last request to a guarded path carried this token as its bearer *)
Presented(token) ==
    /\ exchange # NoExchange
    /\ ~IsPublic(exchange.path)
    /\ CarriesBearer(exchange.authorization)
    /\ exchange.authorization[3] = token

(* C39: in local mode a token that the token-mint endpoint returned is      *)
(* accepted by the guard when it is presented: the admin token at every    *)
(* time, the user token at every time up to its exp; and a signed token    *)
(* without perm whose exp has passed is answered 401.                      *)
C39_MintedTokensAreAccepted ==
    /\ (token_request # NoTokenRequest /\ ~token_request.response.raised
        /\ Presented(token_request.response.access_token))
       => LET token == token_request.response.access_token
              admin == /\ token_request.username = admin_username
                       /\ token_request.password = admin_password
          IN IF admin THEN exchange.handled
             ELSE exchange.now <= token.exp => exchange.handled
    /\ \A token \in SignedTokens :
           (/\ ~token.perm
            /\ token.exp # NoExp
            /\ Presented(token)
            /\ exchange.now > token.exp)
           => ~exchange.handled /\ exchange.status_code = 401

====
